---- MODULE Spec2Model ----
(***************************************************************************)
(* Model of the fasta2a-poc worker / A2A-client core.                      *)
(*                                                                         *)
(* One agent process is modelled per behaviour: `kind` says which worker   *)
(* class was constructed for it (ConfigurableWorker, the registry-driven   *)
(* DirectorWorker of agents/director_worker.py, or one of the three        *)
(* stand-alone modules director_agent.py, classifier_agent.py,             *)
(* summarizer_agent.py).  The process owns a task store, a broker queue    *)
(* and one worker loop.  Remote agents, the registry and the LLM are the   *)
(* environment: every response they can give is chosen with \E.            *)
(*                                                                         *)
(* Text is a sequence of tokens (a token stands for a run of characters),  *)
(* so that formatting, stripping, truncation and substring tests are       *)
(* computed rather than assumed.                                           *)
(***************************************************************************)
EXTENDS Integers, Sequences, FiniteSets, TLC

(***************************************************************************)
(* Bounds of the model                                                     *)
(***************************************************************************)
\* number of operations the broker hands to the worker: first deliveries
\* of submitted tasks, repeated deliveries and cancel requests together
MaxDeliveries == 2

(***************************************************************************)
(* Program constants                                                       *)
(***************************************************************************)
\* director_worker.py:74  max_attempts = 30
max_attempts == 30

(***************************************************************************)
(* Text                                                                    *)
(***************************************************************************)
WS == {" ", "\n"}

RECURSIVE LStrip(_)
LStrip(s) == IF s # <<>> /\ Head(s) \in WS THEN LStrip(Tail(s)) ELSE s

RECURSIVE RStrip(_)
RStrip(s) == IF s # <<>> /\ s[Len(s)] \in WS THEN RStrip(SubSeq(s, 1, Len(s) - 1)) ELSE s

\* str.strip()
Strip(s) == RStrip(LStrip(s))

\* `k in s` for two strings
IsSubstr(k, s) == \E i \in 1..(Len(s) - Len(k) + 1) : SubSeq(s, i, i + Len(k) - 1) = k

\* str.startswith
StartsWith(s, p) == Len(s) >= Len(p) /\ SubSeq(s, 1, Len(p)) = p

LowerTok(c) == CASE c = "Claim" -> "claim"
                 [] c = "Heart" -> "heart"
                 [] c = "General" -> "general"
                 [] c = "Insurance" -> "insurance"
                 [] c = "Medical" -> "medical"
                 [] c = "Summarizer" -> "summarizer"
                 [] c = "SUMMARIZER" -> "summarizer"
                 [] c = "Classifier" -> "classifier"
                 [] OTHER -> c

\* str.lower()
Lower(s) == [i \in 1..Len(s) |-> LowerTok(s[i])]

(***************************************************************************)
(* Exceptions: a type and the text str(e) gives                            *)
(***************************************************************************)
Exc(type, msg) == [type |-> type, msg |-> msg]

IndexError == Exc("IndexError", <<"list index out of range">>)
NoneTypeGet == Exc("AttributeError", <<"'NoneType' object has no attribute 'get'">>)

(***************************************************************************)
(* Messages, tasks, contexts                                               *)
(***************************************************************************)
\* TextPart(text=..., kind="text")
Part(text) == [kind |-> "text", text |-> text]

\* A2A Message; parts is a sequence of parts
Message(role, parts, mid) == [role |-> role, parts |-> parts, mid |-> mid]

NoError == [set |-> FALSE, text |-> <<>>]
SomeError(text) == [set |-> TRUE, text |-> text]

Terminal == {"completed", "failed", "canceled"}

CtxIds == {"c1"}

\* the message/send parameters a client can post: a message with one text
\* part, or a message whose part list is empty
InputParts == { <<>>, << Part(<<"Claim", " ", "heart">>) >> }

VARIABLES
    kind,       \* worker class constructed for this process
    remote,     \* condition of the remote agent behind each leg
    tasks,      \* storage: task id -> task record
    contexts,   \* storage: context id -> stored context
    nextMid,    \* source of fresh message identifiers (uuid4)
    queue,      \* broker: sequence of TaskSendParams
    redelivered,\* number of redeliveries and cancel requests so far
    pc,         \* position of the worker loop / run_task coroutine
    cur,        \* locals of the running run_task
    legs,       \* the two get_agent_message coroutines of a director run
    elapsed,    \* logical time (poll intervals) since the joint wait began
    agentSpec,  \* ConfigurableWorker._agent_spec
    run         \* per task: outcome of the latest run_task on it

vars == <<kind, remote, tasks, contexts, nextMid, queue, redelivered, pc, cur, legs, elapsed, agentSpec, run>>

Kinds == {"generic", "director", "legacy_director", "legacy_classifier", "legacy_summarizer"}

TaskIds == 1..MaxDeliveries

Legs == {"summarizer", "classifier"}

(***************************************************************************)
(* Task store (fasta2a InMemoryStorage, used through the contract of       *)
(* spec section 4.1) and broker (section 4.2)                              *)
(***************************************************************************)
\* update_task(id, state=..., new_messages=..., error=...): merges the given
\* fields into the stored record
update_task_replacing(T, id, state, new_messages, error) ==
    [T EXCEPT ![id] = [id |-> id, context_id |-> @.context_id, state |-> state,
                       history |-> new_messages, error |-> error]]

update_task(T, id, state, new_messages, error) ==
    [T EXCEPT ![id] = [@ EXCEPT !.state = state,
                                !.history = @ \o new_messages,
                                !.error = IF error.set THEN error ELSE @]]

\* a stored context: normally a list of messages; director_agent.py stores
\* a single message object under the context id instead of a list
CtxList(items) == [present |-> TRUE, isList |-> TRUE, items |-> items]
CtxObject(m) == [present |-> TRUE, isList |-> FALSE, items |-> <<m>>]
CtxAbsent == [present |-> FALSE, isList |-> TRUE, items |-> <<>>]

\* `await self.storage.load_context(cid) or []`: an absent context and an
\* empty list both give a fresh empty list
load_context_or_empty(C, cid) ==
    IF C[cid].present /\ ~(C[cid].isList /\ C[cid].items = <<>>)
    THEN C[cid] ELSE CtxList(<<>>)

\* update_context(cid, value)
update_context(C, cid, value) == [C EXCEPT ![cid] = value]

\* TaskSendParams handed to the broker for a task
Params(id, cid, message) ==
    [operation |-> "run", id |-> id, context_id |-> cid, message |-> message]

\* TaskIdParams of a cancel request, as the broker hands them to the worker
CancelParams(id) == [operation |-> "cancel", id |-> id]

\* the cancel_task of a worker that marks the task canceled
cancel_task_marking(T, id) ==
    [T EXCEPT ![id] = [@ EXCEPT !.state = "canceled"]]

\* `async def cancel_task(self, params: TaskIdParams) -> None: ...`
cancel_task(T, id) == T

Idle == [id |-> 0]


(***************************************************************************)
(* Agent specifications held by the registry (seed.py), and the leaf       *)
(* agents' text processing                                                 *)
(***************************************************************************)
ClassifierSpec ==
    [name |-> "Classifier Agent", agent_type |-> "classifier",
     uses_adk |-> TRUE, system_prompt |-> TRUE,
     config |-> [categories |-> << <<"insurance">>, <<"medical">>, <<"general">> >>,
                 fallback_keywords |->
                    << [label |-> <<"insurance">>, keywords |-> << <<"claim">>, <<"insurance">> >>],
                       [label |-> <<"medical">>, keywords |-> << <<"heart">>, <<"medical">>, <<"condition">> >>] >>]]

\* a summarizer record without LLM backing and with a short truncation length
SummarizerSpec ==
    [name |-> "Summarizer Agent", agent_type |-> "summarizer",
     uses_adk |-> FALSE, system_prompt |-> TRUE,
     config |-> [fallback_length |-> 2]]

AgentSpecs == {ClassifierSpec, SummarizerSpec}

\* generic_agent.py:111 and :132, the default of config.get("categories", ...)
DefaultCategories == << <<"insurance">>, <<"medical">>, <<"general">> >>

\* generic_agent.py:137  spec.config.get("fallback_length", 100)
DefaultFallbackLength == 100

\* summarizer_agent.py:27  text[:50]
LegacySummaryLength == 50

Categories(spec) ==
    IF "categories" \in DOMAIN spec.config THEN spec.config.categories ELSE DefaultCategories

FallbackKeywords(spec) ==
    IF "fallback_keywords" \in DOMAIN spec.config THEN spec.config.fallback_keywords ELSE <<>>

FallbackLength(spec) ==
    IF "fallback_length" \in DOMAIN spec.config THEN spec.config.fallback_length
    ELSE DefaultFallbackLength

\* text[:n]
Prefix(text, n) == SubSeq(text, 1, IF Len(text) < n THEN Len(text) ELSE n)

\* `for x in xs: if test(x): return ...`: the first index among `hits`,
\* 0 when there is none
FirstIndex(hits) ==
    IF hits = {} THEN 0 ELSE CHOOSE i \in hits : \A j \in hits : i <= j

_post_process_response(response, spec) ==
    IF spec.agent_type = "classifier"
    THEN LET response_lower == Lower(Strip(response))
             categories == Categories(spec)
             hit == FirstIndex({i \in 1..Len(categories) : IsSubstr(categories[i], response_lower)})
         IN IF hit # 0 THEN categories[hit]
            ELSE IF categories # <<>> THEN categories[1] ELSE <<"general">>
    ELSE Strip(response)

\* the keyword fallback defaulting to the first category
_fallback_process_first(text, spec) ==
    IF spec.agent_type = "classifier"
    THEN LET text_lower == Lower(text)
             fallback_keywords == FallbackKeywords(spec)
             categories == Categories(spec)
             hit == FirstIndex({i \in 1..Len(fallback_keywords) :
                                 \E k \in 1..Len(fallback_keywords[i].keywords) :
                                    IsSubstr(fallback_keywords[i].keywords[k], text_lower)})
         IN IF hit # 0 THEN fallback_keywords[hit].label
            ELSE IF categories # <<>> THEN categories[1] ELSE <<"general">>
    ELSE IF spec.agent_type = "summarizer"
    THEN IF Len(text) > FallbackLength(spec)
         THEN Prefix(text, FallbackLength(spec)) \o <<"...">>
         ELSE text
    ELSE text

\* the truncation fallback cutting texts of exactly the fallback length too
_fallback_process_atleast(text, spec) ==
    IF spec.agent_type = "classifier"
    THEN LET text_lower == Lower(text)
             fallback_keywords == FallbackKeywords(spec)
             categories == Categories(spec)
             hit == FirstIndex({i \in 1..Len(fallback_keywords) :
                                 \E k \in 1..Len(fallback_keywords[i].keywords) :
                                    IsSubstr(fallback_keywords[i].keywords[k], text_lower)})
         IN IF hit # 0 THEN fallback_keywords[hit].label
            ELSE IF categories # <<>> THEN categories[Len(categories)] ELSE <<"general">>
    ELSE IF spec.agent_type = "summarizer"
    THEN IF Len(text) >= FallbackLength(spec)
         THEN Prefix(text, FallbackLength(spec)) \o <<"...">>
         ELSE text
    ELSE text

_fallback_process(text, spec) ==
    IF spec.agent_type = "classifier"
    THEN LET text_lower == Lower(text)
             fallback_keywords == FallbackKeywords(spec)
             categories == Categories(spec)
             hit == FirstIndex({i \in 1..Len(fallback_keywords) :
                                 \E k \in 1..Len(fallback_keywords[i].keywords) :
                                    IsSubstr(fallback_keywords[i].keywords[k], text_lower)})
         IN IF hit # 0 THEN fallback_keywords[hit].label
            ELSE IF categories # <<>> THEN categories[Len(categories)] ELSE <<"general">>
    ELSE IF spec.agent_type = "summarizer"
    THEN IF Len(text) > FallbackLength(spec)
         THEN Prefix(text, FallbackLength(spec)) \o <<"...">>
         ELSE text
    ELSE text

\* what adk_helper.run_agent can give back: an exception, or a stripped text
LlmRaise == [raised |-> TRUE, text |-> <<>>]
LlmText(t) == [raised |-> FALSE, text |-> t]
LlmOutcomes ==
    {LlmRaise, LlmText(<<>>), LlmText(<<"[LLM", " unavailable: Connection failed.]">>),
     LlmText(<<"Medical">>), LlmText(<<"unsure">>)}

\* _process_text without the test for the reserved marker
_process_text_after_llm_nomarker(text, spec, llm) ==
    IF ~llm.raised /\ llm.text # <<>> /\ Strip(llm.text) # <<>>
    THEN _post_process_response(llm.text, spec)
    ELSE _fallback_process(text, spec)

\* _process_text after run_agent has answered (or raised)
_process_text_after_llm(text, spec, llm) ==
    IF ~llm.raised /\ llm.text # <<>> /\ Strip(llm.text) # <<>>
       /\ ~StartsWith(Strip(llm.text), <<"[LLM">>)
    THEN _post_process_response(llm.text, spec)
    ELSE _fallback_process(text, spec)

(***************************************************************************)
(* run_task: pieces shared by the workers                                  *)
(***************************************************************************)
DictHasNoExtend == Exc("AttributeError", <<"'dict' object has no attribute 'extend'">>)

\* the exception, if any, raised between loading the context and reading
\* the input text (context.extend on a stored non-list, parts[0] on an empty
\* part list)
PreludeError(ctx, params) ==
    IF ~ctx.isList THEN [raised |-> TRUE, exc |-> DictHasNoExtend]
    ELSE IF params.message.parts = <<>> THEN [raised |-> TRUE, exc |-> IndexError]
    ELSE [raised |-> FALSE, exc |-> IndexError]

\* the handler marks the task failed and raises again
\* a handler that stores the error text as a reply of the agent as well
FailRun_replying(T, id, e) ==
    /\ tasks' = update_task(T, id, "failed",
                            <<Message("agent", <<Part(e.msg)>>, nextMid)>>, SomeError(e.msg))
    /\ run' = [run EXCEPT ![id] = "returned"]
    /\ pc' = "idle"
    /\ cur' = Idle
    /\ UNCHANGED <<contexts, nextMid>>

FailRun_reraise(T, id, e) ==
    /\ tasks' = update_task(T, id, "failed", <<>>, SomeError(e.msg))
    /\ run' = [run EXCEPT ![id] = "raised"]
    /\ pc' \in {"idle", "crashed"}
    /\ cur' = Idle
    /\ UNCHANGED <<contexts, nextMid>>

\* `except Exception as e: ... update_task(task["id"], state="failed", error=str(e))`
\* followed by the normal return of run_task
FailRun(T, id, e) ==
    /\ tasks' = update_task(T, id, "failed", <<>>, SomeError(e.msg))
    /\ run' = [run EXCEPT ![id] = "returned"]
    /\ pc' = "idle"
    /\ cur' = Idle
    /\ UNCHANGED <<contexts, nextMid>>

\* the agent message is built, appended to the context, the context is
\* stored and the task is completed with the message; run_task returns
CompleteRun(T, id, cid, context, text) ==
    LET message == Message("agent", <<Part(text)>>, nextMid)
    IN /\ contexts' = update_context(contexts, cid, CtxList(Append(context, message)))
       /\ tasks' = update_task(T, id, "completed", <<message>>, NoError)
       /\ nextMid' = nextMid + 1
       /\ run' = [run EXCEPT ![id] = "returned"]
       /\ pc' = "idle"
       /\ cur' = Idle

(***************************************************************************)
(* ConfigurableWorker (agents/generic_agent.py)                            *)
(***************************************************************************)
SpecNotFound_unnamed == Exc("ValueError", <<"Agent spec not found">>)

\* line 47
SpecNotFound == Exc("ValueError", <<"Agent spec not found for ", "agent_name">>)

\* ConfigurableWorker.agent_spec: the cached specification, or one registry
\* lookup whose answer (a record, or None) is cached
AgentSpecAnswers ==
    IF agentSpec.set THEN {agentSpec}
    ELSE {[set |-> FALSE]} \cup {[set |-> TRUE, spec |-> sp] : sp \in AgentSpecs}

\* run_task up to its first suspension: the LLM call, or the end of the run
GenericBegin ==
    /\ kind = "generic"
    /\ pc = "idle"
    /\ queue # <<>>
    /\ Head(queue).operation = "run"
    /\ Head(queue).id \in DOMAIN tasks
    /\ LET params == Head(queue)
           task == tasks[params.id]
           T == update_task(tasks, task.id, "working", <<>>, NoError)
           ctx == load_context_or_empty(contexts, task.context_id)
           context == ctx.items \o task.history
           pre == PreludeError(ctx, params)
       IN /\ queue' = Tail(queue)
          /\ IF pre.raised
             THEN FailRun(T, task.id, pre.exc) /\ UNCHANGED agentSpec
             ELSE \E found \in AgentSpecAnswers :
                    /\ agentSpec' = found
                    /\ IF ~found.set
                       THEN FailRun(T, task.id, SpecNotFound)
                       ELSE IF found.spec.uses_adk /\ found.spec.system_prompt
                       THEN /\ tasks' = T
                            /\ pc' = "llm"
                            /\ cur' = [id |-> task.id, context_id |-> task.context_id,
                                       context |-> context, text |-> params.message.parts[1].text,
                                       spec |-> found.spec]
                            /\ run' = [run EXCEPT ![task.id] = "running"]
                            /\ UNCHANGED <<contexts, nextMid>>
                       ELSE CompleteRun(T, task.id, task.context_id, context,
                                        _fallback_process(params.message.parts[1].text, found.spec))
    /\ UNCHANGED <<kind, remote, redelivered, legs, elapsed>>

\* run_agent answers; the rest of run_task runs to its end
GenericLlmReturn ==
    /\ kind = "generic"
    /\ pc = "llm"
    /\ \E llm \in LlmOutcomes :
         CompleteRun(tasks, cur.id, cur.context_id, cur.context,
                     _process_text_after_llm(cur.text, cur.spec, llm))
    /\ UNCHANGED <<kind, remote, queue, redelivered, legs, elapsed, agentSpec>>

(***************************************************************************)
(* ClassifierWorker (classifier_agent.py), SummarizerWorker                *)
(* (summarizer_agent.py)                                                   *)
(***************************************************************************)
LegacyClassify(text) ==
    IF IsSubstr(<<"claim">>, text) THEN <<"insurance">>
    ELSE IF IsSubstr(<<"heart">>, text) THEN <<"medical">>
    ELSE <<"general">>

LegacyLeafText(text) ==
    IF kind = "legacy_classifier" THEN <<"Class: ">> \o LegacyClassify(text)
    ELSE <<"Shortened Summary: ">> \o Prefix(text, LegacySummaryLength)

\* the whole run_task: it has no suspension point
LegacyLeafRun ==
    /\ kind \in {"legacy_classifier", "legacy_summarizer"}
    /\ pc = "idle"
    /\ queue # <<>>
    /\ Head(queue).operation = "run"
    /\ Head(queue).id \in DOMAIN tasks
    /\ LET params == Head(queue)
           task == tasks[params.id]
           T == update_task(tasks, task.id, "working", <<>>, NoError)
           ctx == load_context_or_empty(contexts, task.context_id)
           pre == PreludeError(ctx, params)
       IN /\ queue' = Tail(queue)
          /\ IF pre.raised
             THEN FailRun(T, task.id, pre.exc)
             ELSE CompleteRun(T, task.id, task.context_id, ctx.items \o task.history,
                              LegacyLeafText(params.message.parts[1].text))
    /\ UNCHANGED <<kind, remote, redelivered, legs, elapsed, agentSpec>>


(***************************************************************************)
(* A2A client: get_agent_message (agents/director_worker.py)               *)
(***************************************************************************)
\* JSON null
Null == [null |-> TRUE]
IsNull(v) == "null" \in DOMAIN v

\* an HTTP exchange as the client sees it: the connection fails, or a
\* response arrives with a status and a body that parses as JSON or not
NoResultBody == [jsonrpc |-> "2.0"]
ResultBody(r) == [jsonrpc |-> "2.0", result |-> r]
ConnError == [net |-> "conn", status |-> 0, json |-> FALSE, body |-> NoResultBody]
Http(status, json, body) == [net |-> "ok", status |-> status, json |-> json, body |-> body]

StatusText(status) == CASE status = 200 -> "200" [] status = 302 -> "302"
                        [] status = 404 -> "404" [] OTHER -> "500"

RequestError == [type |-> "RequestError", msg |-> <<"All connection attempts failed">>]
HTTPStatusError(status) ==
    [type |-> "HTTPStatusError", msg |-> <<"Server error ", StatusText(status)>>,
     code |-> StatusText(status)]
JSONDecodeError == [type |-> "JSONDecodeError", msg |-> <<"Expecting value: line 1 column 1 (char 0)">>]

\* result of one step of the coroutine: return a text, raise, go on to the
\* poll loop, or go on to the next iteration
Return(how, text) == [act |-> "return", how |-> how, text |-> text, exc |-> RequestError]
Raise(exc) == [act |-> "raise", how |-> "exception", text |-> <<>>, exc |-> exc]
Continue == [act |-> "continue", how |-> "none", text |-> <<>>, exc |-> RequestError]
Proceed == [act |-> "poll", how |-> "none", text |-> <<>>, exc |-> RequestError]

\* f"[Error: {detail}]"
ErrorText(detail) == <<"[Error: ">> \o detail \o <<"]">>

\* response.raise_for_status(); response.json()   (lines 59-61, 77-79)
Received(resp) ==
    IF resp.net = "conn" THEN Raise(RequestError)
    ELSE IF ~(resp.status >= 200 /\ resp.status < 300) THEN Raise(HTTPStatusError(resp.status))
    ELSE IF ~resp.json THEN Raise(JSONDecodeError)
    ELSE Proceed

\* the send exchange with `if task_id is None` in place of `if not task_id`
SendStep_idnotnone(resp) ==
    LET got == Received(resp)
    IN IF got.act = "raise" THEN got
       ELSE IF "result" \notin DOMAIN resp.body
       THEN Return("no_result", ErrorText(<<"No result in response">>))
       ELSE IF IsNull(resp.body.result) THEN Raise(NoneTypeGet)
       ELSE IF "id" \notin DOMAIN resp.body.result
       THEN Return("no_id", ErrorText(<<"No task ID in response">>))
       ELSE Proceed

\* lines 59-68: the message/send exchange
SendStep(resp) ==
    LET got == Received(resp)
    IN IF got.act = "raise" THEN got
       ELSE IF "result" \notin DOMAIN resp.body
       THEN Return("no_result", ErrorText(<<"No result in response">>))
       ELSE IF IsNull(resp.body.result) THEN Raise(NoneTypeGet)
       ELSE IF "id" \notin DOMAIN resp.body.result \/ resp.body.result.id = ""
       THEN Return("no_id", ErrorText(<<"No task ID in response">>))
       ELSE Proceed

\* the text taken from the first message of the history
CompletedText_first(task) ==
    LET history == IF "history" \in DOMAIN task THEN task.history ELSE <<>>
    IN IF history # <<>>
       THEN LET last_message == history[1]
                parts == IF "parts" \in DOMAIN last_message THEN last_message.parts ELSE <<>>
            IN IF parts # <<>>
               THEN (IF "text" \in DOMAIN parts[1] THEN parts[1].text ELSE <<>>)
               ELSE <<>>
       ELSE <<>>

\* lines 88-94: the text of a completed remote task
CompletedText(task) ==
    LET history == IF "history" \in DOMAIN task THEN task.history ELSE <<>>
    IN IF history # <<>>
       THEN LET last_message == history[Len(history)]
                parts == IF "parts" \in DOMAIN last_message THEN last_message.parts ELSE <<>>
            IN IF parts # <<>>
               THEN (IF "text" \in DOMAIN parts[1] THEN parts[1].text ELSE <<>>)
               ELSE <<>>
       ELSE <<>>

\* the poll loop reporting every failure as "Unknown error"
PollStep_anyerror(resp) ==
    LET got == Received(resp)
    IN IF got.act = "raise" THEN got
       ELSE IF "result" \notin DOMAIN resp.body THEN Continue
       ELSE IF IsNull(resp.body.result) THEN Raise(NoneTypeGet)
       ELSE LET task == resp.body.result
                state == IF "state" \in DOMAIN task THEN task.state ELSE ""
            IN IF state = "completed" THEN Return("completed", CompletedText(task))
               ELSE IF state = "failed"
               THEN Return("failed", ErrorText(<<"Unknown error">>))
               ELSE Continue

\* the poll loop without its `if state == "failed"` branch
PollStep_nofail(resp) ==
    LET got == Received(resp)
    IN IF got.act = "raise" THEN got
       ELSE IF "result" \notin DOMAIN resp.body THEN Continue
       ELSE IF IsNull(resp.body.result) THEN Raise(NoneTypeGet)
       ELSE LET task == resp.body.result
                state == IF "state" \in DOMAIN task THEN task.state ELSE ""
            IN IF state = "completed" THEN Return("completed", CompletedText(task))
               ELSE Continue

\* the poll loop going on to its next attempt when an exchange fails
PollStep_retry(resp) ==
    LET got == Received(resp)
    IN IF got.act = "raise" THEN Continue
       ELSE IF "result" \notin DOMAIN resp.body THEN Continue
       ELSE IF IsNull(resp.body.result) THEN Raise(NoneTypeGet)
       ELSE LET task == resp.body.result
                state == IF "state" \in DOMAIN task THEN task.state ELSE ""
            IN IF state = "completed" THEN Return("completed", CompletedText(task))
               ELSE IF state = "failed"
               THEN Return("failed", ErrorText(IF "error" \in DOMAIN task THEN task.error
                                               ELSE <<"Unknown error">>))
               ELSE Continue

\* lines 77-98: one iteration of the poll loop, given the tasks/get exchange
PollStep(resp) ==
    LET got == Received(resp)
    IN IF got.act = "raise" THEN got
       ELSE IF "result" \notin DOMAIN resp.body THEN Continue
       ELSE IF IsNull(resp.body.result) THEN Raise(NoneTypeGet)
       ELSE LET task == resp.body.result
                state == IF "state" \in DOMAIN task THEN task.state ELSE ""
            IN IF state = "completed" THEN Return("completed", CompletedText(task))
               ELSE IF state = "failed"
               THEN Return("failed", ErrorText(IF "error" \in DOMAIN task THEN task.error
                                               ELSE <<"Unknown error">>))
               ELSE Continue

\* what the coroutine hands to its caller
Out(how, text) == [raised |-> FALSE, how |-> how, text |-> text]
Escaped(exc) == [raised |-> TRUE, how |-> "exception", text |-> exc.msg]
NoOut == Out("none", <<>>)

\* the except clauses without the final `except Exception`
OnException_reraise(e) ==
    IF e.type = "HTTPStatusError" THEN Out("exception", ErrorText(<<"HTTP ", e.code>>))
    ELSE IF e.type = "RequestError" THEN Out("exception", ErrorText(<<"Request failed: ">> \o e.msg))
    ELSE Escaped(e)

\* lines 102-109: the except clauses
OnException(e) ==
    IF e.type = "HTTPStatusError" THEN Out("exception", ErrorText(<<"HTTP ", e.code>>))
    ELSE IF e.type = "RequestError" THEN Out("exception", ErrorText(<<"Request failed: ">> \o e.msg))
    ELSE Out("exception", ErrorText(e.msg))

\* line 100
TimeoutOut == Out("timeout", ErrorText(<<"Timeout waiting for response">>))

\* the first poll answer that showed the remote task in a terminal state
NotSeen == [state |-> "none"]
ShowsTerminal(resp) ==
    /\ Received(resp).act = "poll"
    /\ "result" \in DOMAIN resp.body
    /\ ~IsNull(resp.body.result)
    /\ "state" \in DOMAIN resp.body.result
    /\ resp.body.result.state \in {"completed", "failed"}

\* a get_agent_message coroutine: its position, the remote task identifier
\* it obtained ("" before that), the index of its poll attempt, and what it
\* returned
Leg(p, task_id, attempt, out, seen) ==
    [pc |-> p, task_id |-> task_id, attempt |-> attempt, out |-> out, seen |-> seen]
NoLeg == Leg("none", "", 0, NoOut, NotSeen)
Sending == Leg("sending", "", 0, NoOut, NotSeen)

(***************************************************************************)
(* What a remote agent can answer                                          *)
(***************************************************************************)
RemoteText(l) == IF l = "summarizer" THEN <<"X">> ELSE <<"Y">>

RemoteUserMessage(mid) == Message("user", <<Part(<<"Claim", " ", "heart">>)>>, mid)
RemoteEarlier == RemoteUserMessage(0)
RemoteTask(state, history) == [id |-> "r1", state |-> state, history |-> history]
Completed(text, mid) ==
    RemoteTask("completed", <<RemoteEarlier, Message("agent", <<Part(text)>>, mid)>>)
Failed(error) == [id |-> "r1", state |-> "failed", history |-> <<>>, error |-> error]

Ok(r) == Http(200, TRUE, ResultBody(r))

\* every kind of answer to message/send
SendResponses ==
    { ConnError, Http(500, FALSE, NoResultBody), Http(404, TRUE, NoResultBody),
      Http(200, FALSE, NoResultBody), Http(200, TRUE, NoResultBody), Ok(Null),
      Ok([kind |-> "task"]), Ok([kind |-> "task", id |-> ""]), Ok([kind |-> "task", id |-> "r1"]) }

\* every kind of answer to tasks/get
PollResponses(l, mid) ==
    { ConnError, Http(500, FALSE, NoResultBody), Http(200, FALSE, NoResultBody),
      Http(200, TRUE, NoResultBody), Ok(Null),
      Ok([id |-> "r1"]), Ok(RemoteTask("submitted", <<RemoteUserMessage(mid)>>)),
      Ok(RemoteTask("working", <<RemoteUserMessage(mid)>>)),
      Ok(Completed(RemoteText(l), mid)), Ok(Completed(<<" ">>, mid)),
      Ok([id |-> "r1", state |-> "completed"]), Ok(RemoteTask("completed", <<>>)),
      Ok(RemoteTask("completed", <<[role |-> "agent", mid |-> mid]>>)),
      Ok(RemoteTask("completed", <<Message("agent", <<>>, mid)>>)),
      Ok(RemoteTask("completed", <<Message("agent", <<[kind |-> "text"]>>, mid)>>)),
      Ok(Failed(<<"boom">>)), Ok([id |-> "r1", state |-> "failed"]) }

\* The orchestration runs are explored with each remote agent in one
\* condition throughout: it completes with its text within the polling
\* budget, completes with a blank text or with none, fails, never leaves the working
\* state, answers message/send with a body that is not JSON, or cannot be
\* reached.
Conditions == {"completes", "blank", "fails", "silent", "garbled", "unreachable"}

Accepts == Ok([kind |-> "task", id |-> "r1"])

ConditionSend(c) ==
    IF c = "unreachable" THEN {ConnError}
    ELSE IF c = "garbled" THEN {Http(200, FALSE, NoResultBody)}
    ELSE {Accepts}

ConditionPoll(c, l, attempt, mid) ==
    LET working == Ok(RemoteTask("working", <<RemoteUserMessage(mid)>>))
    IN IF c = "completes"
       THEN (IF attempt + 1 < max_attempts THEN {working} ELSE {}) \cup {Ok(Completed(RemoteText(l), mid))}
       ELSE IF c = "blank" THEN {Ok(Completed(<<" ">>, mid)), Ok(RemoteTask("completed", <<>>))}
       ELSE IF c = "fails" THEN {Ok(Failed(<<"boom">>))}
       ELSE {working}

\* the get_agent_message call explored on its own meets every kind of answer
SendAnswers(l) == IF kind = "client" THEN SendResponses ELSE ConditionSend(remote[l])
PollAnswers(l) ==
    IF kind = "client" THEN PollResponses(l, nextMid)
    ELSE ConditionPoll(remote[l], l, legs[l].attempt, nextMid)

(***************************************************************************)
(* The coroutines of get_agent_message under asyncio.gather                *)
(***************************************************************************)
\* the two calls awaited one after the other
Runnable_serial(L, l) ==
    /\ L[l].pc \in {"sending", "sleeping", "polling"}
    /\ l = "classifier" => L["summarizer"].pc = "done"

\* asyncio.gather schedules both coroutines: each one that has not returned
\* runs whenever the exchange or the sleep it awaits is over
Runnable(L, l) == L[l].pc \in {"sending", "sleeping", "polling"}

Pending(L) == \E l \in Legs : L[l].pc \in {"sending", "sleeping", "polling"}

\* the joint wait is over when no coroutine is pending: the clock is only
\* kept while it lasts
Clock(L) == IF Pending(L) THEN elapsed ELSE 0

\* the message/send exchange of leg l ends
LegSendResponse(l) ==
    /\ pc \in {"gather", "call"}
    /\ legs[l].pc = "sending"
    /\ Runnable(legs, l)
    /\ \E resp \in SendAnswers(l) :
         LET step == SendStep(resp)
             L == [legs EXCEPT ![l] =
                     IF step.act = "poll"
                     THEN Leg("sleeping", resp.body.result.id, 0, NoOut, NotSeen)
                     ELSE IF step.act = "raise"
                     THEN Leg("done", "", 0, OnException(step.exc), NotSeen)
                     ELSE Leg("done", "", 0, Out(step.how, step.text), NotSeen)]
         IN legs' = L /\ elapsed' = Clock(L)
    /\ UNCHANGED <<kind, remote, tasks, contexts, nextMid, queue, redelivered, pc, cur, agentSpec, run>>

\* the clock observes logical time in poll intervals; it is read up to one
\* interval past the budget of a single call and stands still beyond
ClockCap == max_attempts + 1

\* asyncio.sleep(0.3) is over for every sleeping coroutine at once: one poll
\* interval of logical time passes and each of them posts its tasks/get
Tick ==
    /\ pc \in {"gather", "call"}
    /\ \E l \in Legs : Runnable(legs, l)
    /\ \A l \in Legs : Runnable(legs, l) => legs[l].pc = "sleeping"
    /\ elapsed' = IF elapsed < ClockCap THEN elapsed + 1 ELSE elapsed
    /\ legs' = [l \in Legs |-> IF Runnable(legs, l) THEN [legs[l] EXCEPT !.pc = "polling"]
                               ELSE legs[l]]
    /\ UNCHANGED <<kind, remote, tasks, contexts, nextMid, queue, redelivered, pc, cur, agentSpec, run>>

\* a poll loop that does not count its attempts
AfterPoll_unbounded(leg, resp) ==
    LET step == PollStep(resp)
        seen == IF leg.seen = NotSeen /\ ShowsTerminal(resp) THEN resp.body.result ELSE leg.seen
    IN IF step.act = "raise" THEN Leg("done", leg.task_id, 0, OnException(step.exc), seen)
       ELSE IF step.act = "return" THEN Leg("done", leg.task_id, 0, Out(step.how, step.text), seen)
       ELSE Leg("sleeping", leg.task_id, leg.attempt, NoOut, seen)

\* a poll loop that goes round once more than its budget
AfterPoll_onemore(leg, resp) ==
    LET step == PollStep(resp)
        seen == IF leg.seen = NotSeen /\ ShowsTerminal(resp) THEN resp.body.result ELSE leg.seen
    IN IF step.act = "raise" THEN Leg("done", leg.task_id, 0, OnException(step.exc), seen)
       ELSE IF step.act = "return" THEN Leg("done", leg.task_id, 0, Out(step.how, step.text), seen)
       ELSE IF leg.attempt < max_attempts
       THEN Leg("sleeping", leg.task_id, leg.attempt + 1, NoOut, seen)
       ELSE Leg("done", leg.task_id, 0, TimeoutOut, seen)

\* the leg after the poll of this attempt has been handled
AfterPoll(leg, resp) ==
    LET step == PollStep(resp)
        seen == IF leg.seen = NotSeen /\ ShowsTerminal(resp) THEN resp.body.result ELSE leg.seen
    IN IF step.act = "raise" THEN Leg("done", leg.task_id, 0, OnException(step.exc), seen)
       ELSE IF step.act = "return" THEN Leg("done", leg.task_id, 0, Out(step.how, step.text), seen)
       ELSE IF leg.attempt + 1 < max_attempts
       THEN Leg("sleeping", leg.task_id, leg.attempt + 1, NoOut, seen)
       ELSE Leg("done", leg.task_id, 0, TimeoutOut, seen)

\* the tasks/get exchange of leg l ends
LegPollResponse(l) ==
    /\ pc \in {"gather", "call"}
    /\ legs[l].pc = "polling"
    /\ Runnable(legs, l)
    /\ \E resp \in PollAnswers(l) :
         LET L == [legs EXCEPT ![l] = AfterPoll(legs[l], resp)]
         IN legs' = L /\ elapsed' = Clock(L)
    /\ UNCHANGED <<kind, remote, tasks, contexts, nextMid, queue, redelivered, pc, cur, agentSpec, run>>

(***************************************************************************)
(* DirectorWorker (agents/director_worker.py)                              *)
(***************************************************************************)
\* run_task up to the joint wait: both coroutines have posted message/send
DirectorBegin ==
    /\ kind = "director"
    /\ pc = "idle"
    /\ queue # <<>>
    /\ Head(queue).operation = "run"
    /\ Head(queue).id \in DOMAIN tasks
    /\ LET params == Head(queue)
           task == tasks[params.id]
           T == update_task(tasks, task.id, "working", <<>>, NoError)
           ctx == load_context_or_empty(contexts, task.context_id)
           pre == PreludeError(ctx, params)
       IN /\ queue' = Tail(queue)
          /\ IF pre.raised
             THEN FailRun(T, task.id, pre.exc) /\ UNCHANGED <<legs, elapsed>>
             ELSE /\ tasks' = T
                  /\ pc' = "gather"
                  /\ cur' = [id |-> task.id, context_id |-> task.context_id,
                             context |-> ctx.items \o task.history,
                             text |-> params.message.parts[1].text]
                  /\ legs' = [l \in Legs |-> Sending]
                  /\ elapsed' = 0
                  /\ run' = [run EXCEPT ![task.id] = "running"]
                  /\ UNCHANGED <<contexts, nextMid>>
    /\ UNCHANGED <<kind, remote, redelivered, agentSpec>>

\* asyncio.gather(..., return_exceptions=True) hands its results over when
\* both coroutines have ended
JointWaitOver(L) == \A l \in Legs : L[l].pc = "done"

\* lines 167-171: an exception handed over by the joint wait
AsText(out) == IF out.raised THEN ErrorText(out.text) ELSE out.text

\* the placeholder test without its strip() half
OrPlaceholder_emptyonly(text, placeholder) ==
    IF text = <<>> THEN placeholder ELSE text

\* lines 173-177
OrPlaceholder(text, placeholder) ==
    IF text = <<>> \/ Strip(text) = <<>> THEN placeholder ELSE text

\* the template with the label section first
FormattedText_swapped(summary, label) ==
    Strip(<<"\n", "Our behind-the-scenes bots formed the following conclusions:", "\n",
            "## Label:", "\n">> \o label \o <<"\n", "## Summary:", "\n">> \o summary \o <<"\n">>)

\* lines 179-185 and the strip() of line 189
FormattedText(summary, label) ==
    Strip(<<"\n", "Our behind-the-scenes bots formed the following conclusions:", "\n",
            "## Summary:", "\n">> \o summary \o <<"\n", "## Label:", "\n">> \o label \o <<"\n">>)

\* a reply that gives up both sections as soon as one call ended in an error
ComposeReply_joint(summarizer_out, classifier_out) ==
    IF summarizer_out.how \notin {"completed"} \/ classifier_out.how \notin {"completed"}
    THEN FormattedText(<<"[No summary available]">>, <<"[No classification available]">>)
    ELSE FormattedText(OrPlaceholder(AsText(summarizer_out), <<"[No summary available]">>),
                       OrPlaceholder(AsText(classifier_out), <<"[No classification available]">>))

\* lines 167-189: the reply composed from the two outcomes
ComposeReply(summarizer_out, classifier_out) ==
    FormattedText(OrPlaceholder(AsText(summarizer_out), <<"[No summary available]">>),
                  OrPlaceholder(AsText(classifier_out), <<"[No classification available]">>))

\* run_task from the end of the joint wait to its return
DirectorCompose ==
    /\ kind = "director"
    /\ pc = "gather"
    /\ JointWaitOver(legs)
    /\ CompleteRun(tasks, cur.id, cur.context_id, cur.context,
                   ComposeReply(legs["summarizer"].out, legs["classifier"].out))
    /\ legs' = [l \in Legs |-> IF legs[l].pc = "done" THEN NoLeg ELSE legs[l]]
    /\ UNCHANGED <<kind, remote, queue, redelivered, elapsed, agentSpec>>

(***************************************************************************)
(* DirectorWorker (director_agent.py)                                      *)
(***************************************************************************)
\* `except Exception as e: context.result = {...}`: context is a list, a
\* stored message or unbound, none of which has an attribute `result`, so
\* the handler raises and the exception leaves run_task.  What the worker
\* loop does with it is the library's business: it goes on or it ends.
Escape(T, id) ==
    /\ tasks' = T
    /\ run' = [run EXCEPT ![id] = "raised"]
    /\ pc' \in {"idle", "crashed"}
    /\ cur' = Idle
    /\ UNCHANGED <<contexts, nextMid>>

\* client.post(...).json() without raise_for_status
LegacyParsed(resp) == resp.net = "ok" /\ resp.json

\* summary["result"]["id"]
LegacyHasId(resp) ==
    /\ LegacyParsed(resp)
    /\ "result" \in DOMAIN resp.body
    /\ ~IsNull(resp.body.result)
    /\ "id" \in DOMAIN resp.body.result

\* summary["result"]["history"][-1]
LegacyHasLast(resp) ==
    /\ LegacyParsed(resp)
    /\ "result" \in DOMAIN resp.body
    /\ ~IsNull(resp.body.result)
    /\ "history" \in DOMAIN resp.body.result
    /\ resp.body.result.history # <<>>

\* run_task up to the first post to the summarizer
LegacyDirectorBegin ==
    /\ kind = "legacy_director"
    /\ pc = "idle"
    /\ queue # <<>>
    /\ Head(queue).operation = "run"
    /\ Head(queue).id \in DOMAIN tasks
    /\ LET params == Head(queue)
           task == tasks[params.id]
           T == update_task(tasks, task.id, "working", <<>>, NoError)
           ctx == load_context_or_empty(contexts, task.context_id)
           pre == PreludeError(ctx, params)
       IN /\ queue' = Tail(queue)
          /\ IF pre.raised
             THEN Escape(T, task.id)
             ELSE /\ tasks' = T
                  /\ pc' = "legacy_send"
                  /\ cur' = [id |-> task.id, context_id |-> task.context_id,
                             leg |-> "summarizer"]
                  /\ run' = [run EXCEPT ![task.id] = "running"]
                  /\ UNCHANGED <<contexts, nextMid>>
    /\ UNCHANGED <<kind, remote, redelivered, legs, elapsed, agentSpec>>

\* the message/send exchange with the current remote agent ends; the
\* tasks/get request is posted at once
LegacySendResponse ==
    /\ kind = "legacy_director"
    /\ pc = "legacy_send"
    /\ \E resp \in SendAnswers(cur.leg) :
         IF LegacyHasId(resp)
         THEN /\ pc' = "legacy_get"
              /\ UNCHANGED <<tasks, contexts, nextMid, cur, run>>
         ELSE Escape(tasks, cur.id)
    /\ UNCHANGED <<kind, remote, queue, redelivered, legs, elapsed, agentSpec>>

\* the single tasks/get exchange ends: the last message of the remote task
\* is stored as the context and appended to the task, which is completed;
\* after the summarizer the classifier is called, after the classifier
\* run_task returns
LegacyGetResponse ==
    /\ kind = "legacy_director"
    /\ pc = "legacy_get"
    /\ \E resp \in PollAnswers(cur.leg) :
         IF LegacyHasLast(resp)
         THEN LET last == resp.body.result.history[Len(resp.body.result.history)]
              IN /\ contexts' = update_context(contexts, cur.context_id, CtxObject(last))
                 /\ tasks' = update_task(tasks, cur.id, "completed", <<last>>, NoError)
                 /\ nextMid' = nextMid + 1
                 /\ IF cur.leg = "summarizer"
                    THEN /\ pc' = "legacy_send"
                         /\ cur' = [cur EXCEPT !.leg = "classifier"]
                         /\ run' = run
                    ELSE /\ pc' = "idle"
                         /\ cur' = Idle
                         /\ run' = [run EXCEPT ![cur.id] = "returned"]
         ELSE Escape(tasks, cur.id)
    /\ UNCHANGED <<kind, remote, queue, redelivered, legs, elapsed, agentSpec>>

(***************************************************************************)
(* The agent application and its broker                                    *)
(***************************************************************************)
Init ==
    /\ kind \in Kinds
    /\ remote \in [Legs -> Conditions]
    /\ kind \notin {"director", "legacy_director"} => remote = [l \in Legs |-> "completes"]
    /\ tasks = <<>>
    /\ contexts = [c \in CtxIds |-> CtxAbsent]
    /\ nextMid = 1
    /\ queue = <<>>
    /\ redelivered = 0
    /\ pc = "idle"
    /\ cur = Idle
    /\ legs = [l \in Legs |-> NoLeg]
    /\ elapsed = 0
    /\ agentSpec = [set |-> FALSE]
    /\ run = [t \in TaskIds |-> "none"]

\* message/send received by the agent application: the task manager stores
\* a new task in state submitted, with the user message as its history, and
\* hands its parameters to the broker
Submit ==
    /\ Len(tasks) + redelivered < MaxDeliveries
    /\ \E cid \in CtxIds, parts \in InputParts :
         LET id == Len(tasks) + 1
             m == Message("user", parts, nextMid)
         IN /\ tasks' = Append(tasks, [id |-> id, context_id |-> cid, state |-> "submitted",
                                       history |-> <<m>>, error |-> NoError])
            /\ queue' = Append(queue, Params(id, cid, m))
            /\ nextMid' = nextMid + 1
    /\ UNCHANGED <<kind, remote, contexts, redelivered, pc, cur, legs, elapsed, agentSpec, run>>

\* at-least-once delivery: the broker hands out, once more, the parameters
\* of a task it has already delivered
Redeliver ==
    /\ Len(tasks) + redelivered < MaxDeliveries
    /\ \E id \in DOMAIN tasks :
         /\ run[id] # "none"
         /\ queue' = Append(queue, Params(id, tasks[id].context_id, tasks[id].history[1]))
    /\ redelivered' = redelivered + 1
    /\ UNCHANGED <<kind, remote, tasks, contexts, nextMid, pc, cur, legs, elapsed, agentSpec, run>>

\* tasks/cancel received by the agent application: the request is handed
\* to the broker, which queues it for the worker behind what it holds
Cancel ==
    /\ Len(tasks) + redelivered < MaxDeliveries
    /\ \E id \in DOMAIN tasks : queue' = Append(queue, CancelParams(id))
    /\ redelivered' = redelivered + 1
    /\ UNCHANGED <<kind, remote, tasks, contexts, nextMid, pc, cur, legs, elapsed, agentSpec, run>>

\* the worker loop takes a cancel operation and awaits cancel_task
CancelTask ==
    /\ pc = "idle"
    /\ queue # <<>>
    /\ Head(queue).operation = "cancel"
    /\ queue' = Tail(queue)
    /\ tasks' = cancel_task(tasks, Head(queue).id)
    /\ UNCHANGED <<kind, remote, contexts, nextMid, redelivered, pc, cur, legs, elapsed, agentSpec, run>>

(***************************************************************************)
(* Specifications                                                          *)
(***************************************************************************)
Next ==
    \/ Submit
    \/ Redeliver
    \/ Cancel
    \/ CancelTask
    \/ GenericBegin
    \/ GenericLlmReturn
    \/ LegacyLeafRun
    \/ DirectorBegin
    \/ \E l \in Legs : LegSendResponse(l)
    \/ Tick
    \/ \E l \in Legs : LegPollResponse(l)
    \/ DirectorCompose
    \/ LegacyDirectorBegin
    \/ LegacySendResponse
    \/ LegacyGetResponse

Spec == Init /\ [][Next]_vars

\* one call of get_agent_message on its own, against every kind of answer
InitClient ==
    /\ kind = "client"
    /\ remote = [l \in Legs |-> "completes"]
    /\ tasks = <<>>
    /\ contexts = [c \in CtxIds |-> CtxAbsent]
    /\ nextMid = 1
    /\ queue = <<>>
    /\ redelivered = 0
    /\ pc = "call"
    /\ cur = Idle
    /\ \E called \in Legs : legs = [l \in Legs |-> IF l = called THEN Sending ELSE NoLeg]
    /\ elapsed = 0
    /\ agentSpec = [set |-> FALSE]
    /\ run = [t \in TaskIds |-> "none"]

NextClient ==
    \/ \E l \in Legs : LegSendResponse(l)
    \/ Tick
    \/ \E l \in Legs : LegPollResponse(l)

ClientSpec == InitClient /\ [][NextClient]_vars

\* Scheduling: the event loop runs every coroutine that is ready, every
\* HTTP exchange ends (httpx gives up after its timeout), every sleep ends
\* and the LLM adapter answers; requests from outside may stop coming.
Progress ==
    \/ CancelTask
    \/ GenericBegin
    \/ GenericLlmReturn
    \/ LegacyLeafRun
    \/ DirectorBegin
    \/ \E l \in Legs : LegSendResponse(l)
    \/ Tick
    \/ \E l \in Legs : LegPollResponse(l)
    \/ DirectorCompose
    \/ LegacyDirectorBegin
    \/ LegacySendResponse
    \/ LegacyGetResponse

FairSpec == Spec /\ WF_vars(Progress)

(***************************************************************************)
(* A run operation for an identifier the storage does not hold.  The runs  *)
(* above are explored together with such deliveries.                       *)
(***************************************************************************)
UnknownId == 0

\* what load_task does for an identifier it does not hold: it raises, or
\* it returns None
LoadAnswers == {"raises", "none"}

\* how run_task ends when the load gave no task.  A None fails the assert
\* of the next line.  The handler of the workers of agents/ tests
\* 'task' in locals() and then subscripts task: nothing is done when the
\* load raised, and None["id"] raises out of the handler otherwise.  The
\* handlers of the legacy workers use task, or context, unconditionally.
UnknownOutcome(k, load) ==
    IF k \in {"generic", "director"} /\ load = "raises" THEN "returned" ELSE "raised"

DeliverUnknown ==
    /\ Len(tasks) + redelivered < MaxDeliveries
    /\ \E cid \in CtxIds, parts \in InputParts :
         queue' = Append(queue, Params(UnknownId, cid, Message("user", parts, nextMid)))
    /\ redelivered' = redelivered + 1
    /\ UNCHANGED <<kind, remote, tasks, contexts, nextMid, pc, cur, legs, elapsed, agentSpec, run>>

\* the whole run_task on an identifier the storage does not hold
UnknownBegin ==
    /\ pc = "idle"
    /\ queue # <<>>
    /\ Head(queue).operation = "run"
    /\ Head(queue).id \notin DOMAIN tasks
    /\ queue' = Tail(queue)
    /\ \E load \in LoadAnswers :
         LET outcome == UnknownOutcome(kind, load)
         IN /\ cur' = [id |-> 0, load |-> load, outcome |-> outcome]
            /\ pc' \in IF outcome = "raised" THEN {"idle", "crashed"} ELSE {"idle"}
    /\ UNCHANGED <<kind, remote, tasks, contexts, nextMid, redelivered, legs, elapsed, agentSpec, run>>

NextUnknown ==
    \/ Next
    \/ DeliverUnknown
    \/ UnknownBegin

UnknownSpec == Init /\ [][NextUnknown]_vars

(***************************************************************************)
(* Endpoint resolution of DirectorWorker.run_task (lines 131-147) and      *)
(* get_agent_url_from_registry (registry/loader.py)                        *)
(***************************************************************************)
\* the answer of a lookup: an exception, None, or a text (possibly "")
LookupRaised == [raised |-> TRUE, none |-> TRUE, url |-> <<>>]
LookupNone == [raised |-> FALSE, none |-> TRUE, url |-> <<>>]
LookupUrl(url) == [raised |-> FALSE, none |-> FALSE, url |-> url]

SummarizerName == <<"Summarizer", " ", "Agent">>
ClassifierName == <<"Classifier", " ", "Agent">>
DirectorName == <<"Director", " ", "Agent">>

\* config.agents.load: the default list, lists lacking one or both leaf
\* agents, and a list in another spelling and order
AgentNameLists ==
    { <<SummarizerName, ClassifierName, DirectorName>>,
      <<DirectorName>>,
      <<ClassifierName, DirectorName>>,
      <<<<"Classifier">>, <<"SUMMARIZER", "-", "2">>, SummarizerName>> }

RegistryUrl(name) == <<"http://registry/">> \o name

\* what the registry holds under a name: the lookup raises (no database),
\* no record, a record without endpoint, with an empty one, or with one
Holdings == {"raises", "absent", "unset", "empty", "set"}

\* the registries explored: one holding for every name containing
\* "summarizer" and one for every name containing "classifier"
Registries == [Legs -> Holdings]

HoldingOf(registry, agent_name) ==
    IF IsSubstr(<<"summarizer">>, Lower(agent_name)) THEN registry["summarizer"]
    ELSE IF IsSubstr(<<"classifier">>, Lower(agent_name)) THEN registry["classifier"]
    ELSE "absent"

\* a lookup that lets the exception of the session or the query escape
get_agent_url_from_registry_raising(registry, agent_name) ==
    LET held == HoldingOf(registry, agent_name)
    IN IF held = "raises" THEN LookupRaised
       ELSE IF held = "absent" \/ held = "unset" THEN LookupNone
       ELSE IF held = "empty" THEN LookupUrl(<<>>)
       ELSE LookupUrl(RegistryUrl(agent_name))

\* loader.py:14-30
get_agent_url_from_registry(registry, agent_name) ==
    LET held == HoldingOf(registry, agent_name)
    IN IF held = "raises" THEN LookupNone
       ELSE IF held = "absent" \/ held = "unset" THEN LookupNone
       ELSE IF held = "empty" THEN LookupUrl(<<>>)
       ELSE LookupUrl(RegistryUrl(agent_name))

\* next((n for n in agent_names if key in n.lower()), None); <<>> for None
FirstNamed(agent_names, key) ==
    LET hits == {i \in 1..Len(agent_names) : IsSubstr(<<key>>, Lower(agent_names[i]))}
    IN IF hits = {} THEN <<>> ELSE agent_names[CHOOSE i \in hits : \A j \in hits : i <= j]

FallbackUrl(l) ==
    IF l = "summarizer" THEN <<"http://localhost:8000/summarizer/">>
    ELSE <<"http://localhost:8000/classifier/">>

\* lines 136-147 for one leg
ResolveUrl(agent_names, registry, l) ==
    LET name == FirstNamed(agent_names, l)
        found == IF name # <<>> THEN get_agent_url_from_registry(registry, name)
                 ELSE LookupNone
    IN IF found.raised THEN found
       ELSE IF found.none \/ found.url = <<>> THEN LookupUrl(FallbackUrl(l))
       ELSE found

\* the run of DirectorWorker.run_task through lines 131-147, over every
\* configuration and registry
InitResolve ==
    /\ kind = "director"
    /\ remote = [l \in Legs |-> "completes"]
    /\ tasks = <<>>
    /\ contexts = [c \in CtxIds |-> CtxAbsent]
    /\ nextMid = 1
    /\ queue = <<>>
    /\ redelivered = 0
    /\ pc = "resolve"
    /\ \E names \in AgentNameLists, registry \in Registries :
         cur = [id |-> 0, agent_names |-> names, registry |-> registry,
                urls |-> [l \in Legs |-> <<>>]]
    /\ legs = [l \in Legs |-> NoLeg]
    /\ elapsed = 0
    /\ agentSpec = [set |-> FALSE]
    /\ run = [t \in TaskIds |-> "none"]

\* the summarizer's endpoint is settled (lines 136, 140, 144-145)
ResolveSummarizer ==
    /\ pc = "resolve"
    /\ LET r == ResolveUrl(cur.agent_names, cur.registry, "summarizer")
       IN IF r.raised
          THEN pc' = "handler" /\ cur' = cur
          ELSE pc' = "resolve_classifier" /\ cur' = [cur EXCEPT !.urls["summarizer"] = r.url]
    /\ UNCHANGED <<kind, remote, tasks, contexts, nextMid, queue, redelivered, legs, elapsed, agentSpec, run>>

\* the classifier's endpoint is settled (lines 137, 141, 146-147)
ResolveClassifier ==
    /\ pc = "resolve_classifier"
    /\ LET r == ResolveUrl(cur.agent_names, cur.registry, "classifier")
       IN IF r.raised
          THEN pc' = "handler" /\ cur' = cur
          ELSE pc' = "resolved" /\ cur' = [cur EXCEPT !.urls["classifier"] = r.url]
    /\ UNCHANGED <<kind, remote, tasks, contexts, nextMid, queue, redelivered, legs, elapsed, agentSpec, run>>

NextResolve == ResolveSummarizer \/ ResolveClassifier

ResolveSpec == InitResolve /\ [][NextResolve]_vars

(***************************************************************************)
(* ConfigurableWorker._process_text over configurations, inputs and LLM    *)
(* answers                                                                 *)
(***************************************************************************)
\* lines 80-102
_process_text(text, spec, llm) ==
    IF spec.uses_adk /\ spec.system_prompt
    THEN _process_text_after_llm(text, spec, llm)
    ELSE _fallback_process(text, spec)

Classifier(uses_adk, config) ==
    [name |-> "Classifier Agent", agent_type |-> "classifier",
     uses_adk |-> uses_adk, system_prompt |-> TRUE, config |-> config]

Summarizer(uses_adk, config) ==
    [name |-> "Summarizer Agent", agent_type |-> "summarizer",
     uses_adk |-> uses_adk, system_prompt |-> TRUE, config |-> config]

NoConfig == [max_tokens |-> 256]

\* registry records of classifiers: the seeded one, one with a single
\* keyword entry, one without configuration, and records whose keyword
\* labels, spelling or category list the registry accepts as they are
ClassifierRecords ==
    { ClassifierSpec,
      Classifier(FALSE, [categories |-> << <<"insurance">>, <<"medical">>, <<"general">> >>,
                         fallback_keywords |->
                            << [label |-> <<"insurance">>, keywords |-> << <<"claim">> >>] >>]),
      Classifier(TRUE, NoConfig),
      Classifier(TRUE, [categories |-> << <<"Insurance">>, <<"general">> >>,
                        fallback_keywords |->
                            << [label |-> <<"Insurance">>, keywords |-> << <<"Claim">> >>] >>]),
      Classifier(TRUE, [categories |-> << <<"insurance">>, <<"general">> >>,
                        fallback_keywords |->
                            << [label |-> <<"urgent">>, keywords |-> << <<"heart">> >>] >>]),
      Classifier(TRUE, [categories |-> <<>>, fallback_keywords |-> <<>>]) }

\* registry records of summarizers
SummarizerRecords ==
    { SummarizerSpec,
      Summarizer(TRUE, NoConfig),
      Summarizer(TRUE, [fallback_length |-> 0]),
      Summarizer(TRUE, [fallback_length |-> 2]),
      Summarizer(TRUE, [fallback_length |-> 3]) }

\* input texts, a token standing for a character or a word
InputTexts ==
    { <<>>, <<"a">>, <<"a", "b">>, <<"a", "b", "c">>, <<"a", "b", "c", "d">>,
      <<"Claim", " ", "heart">>, <<"heart">>, <<"my", " ", "Claim">>, <<"hello">> }

\* what run_agent gives back: besides LlmOutcomes, the other sentinel of
\* the adapter and answers naming a category in another spelling or none
LlmAnswers ==
    LlmOutcomes \cup
    { LlmText(<<"[LLM", " error: boom]">>), LlmText(<<"Insurance", " ", "claim">>),
      LlmText(<<"a", " ", "summary">>) }

InitProcess ==
    /\ kind = "generic"
    /\ remote = [l \in Legs |-> "completes"]
    /\ tasks = <<>>
    /\ contexts = [c \in CtxIds |-> CtxAbsent]
    /\ nextMid = 1
    /\ queue = <<>>
    /\ redelivered = 0
    /\ pc = "process"
    /\ \E spec \in ClassifierRecords \cup SummarizerRecords, text \in InputTexts, llm \in LlmAnswers :
         cur = [id |-> 0, spec |-> spec, text |-> text, llm |-> llm, result_text |-> <<>>]
    /\ legs = [l \in Legs |-> NoLeg]
    /\ elapsed = 0
    /\ agentSpec = [set |-> FALSE]
    /\ run = [t \in TaskIds |-> "none"]

\* result_text = await self._process_text(text, spec)
ProcessText ==
    /\ pc = "process"
    /\ pc' = "processed"
    /\ cur' = [cur EXCEPT !.result_text = _process_text(cur.text, cur.spec, cur.llm)]
    /\ UNCHANGED <<kind, remote, tasks, contexts, nextMid, queue, redelivered, legs, elapsed, agentSpec, run>>

NextProcess == ProcessText

ProcessSpec == InitProcess /\ [][NextProcess]_vars

(***************************************************************************)
(* The agents of one process (run_all.py): every agent named in the        *)
(* configuration gets its own app from create_agent_app, with its own      *)
(* storage, broker and worker.  A run_task is kept here only as its two    *)
(* ends: the step that takes the operation and marks the task working, and *)
(* the step that stores the outcome; between the two the coroutine is      *)
(* suspended (LLM call, outbound call, poll sleep).                        *)
(***************************************************************************)
MaxOps == 3

MountedAgents == {"Classifier Agent", "Summarizer Agent"}

create_agent_app_shared(agent_name) == [storage |-> "base", broker |-> "base"]

\* storage = InMemoryStorage(); broker = InMemoryBroker(): fresh instances,
\* named here after the agent they are created for
create_agent_app(agent_name) == [storage |-> agent_name, broker |-> agent_name]

StorageIds == {create_agent_app(a).storage : a \in MountedAgents}

BrokerIds == {create_agent_app(a).broker : a \in MountedAgents}

RemoveAt(q, i) == SubSeq(q, 1, i - 1) \o SubSeq(q, i + 1, Len(q))

receive_last(q) == Len(q)

\* index of the operation the broker hands out next
receive(q) == 1

WorkerFree_always(inflight) == TRUE

\* the worker loop awaits the handling of one operation before it takes
\* the next
WorkerFree(inflight) == inflight = <<>>

StoreTask(S, s, id, rec) == [S EXCEPT ![s] = (id :> rec) @@ @]

InitAgents ==
    /\ kind = "mounted"
    /\ remote = <<>>
    /\ agentSpec = [a \in MountedAgents |-> create_agent_app(a)]
    /\ tasks = [s \in StorageIds |-> <<>>]
    /\ contexts = <<>>
    /\ nextMid = 1
    /\ queue = [b \in BrokerIds |-> <<>>]
    /\ redelivered = 0
    /\ pc = "serving"
    /\ cur = [a \in MountedAgents |-> <<>>]
    /\ legs = [b \in BrokerIds |-> <<>>]
    /\ elapsed = 0
    /\ run = [a \in MountedAgents |-> <<>>]

\* message/send on the app mounted for agent a: the task is created in the
\* app's storage and its identifier handed to the app's broker
SubmitTo(a) ==
    /\ (nextMid - 1) + redelivered < MaxOps
    /\ LET app == agentSpec[a]
           id == nextMid
       IN /\ tasks' = StoreTask(tasks, app.storage, id,
                                [id |-> id, owner |-> a, state |-> "submitted",
                                 history |-> 1, writers |-> {}])
          /\ queue' = [queue EXCEPT ![app.broker] = Append(@, id)]
          /\ legs' = [legs EXCEPT ![app.broker] = Append(@, id)]
    /\ nextMid' = nextMid + 1
    /\ UNCHANGED <<kind, remote, contexts, redelivered, pc, cur, elapsed, agentSpec, run>>

\* at-least-once delivery: a broker enqueues again an identifier it was given
RedeliverAt(b) ==
    /\ (nextMid - 1) + redelivered < MaxOps
    /\ \E i \in 1..Len(legs[b]) :
         /\ queue' = [queue EXCEPT ![b] = Append(@, legs[b][i])]
         /\ legs' = [legs EXCEPT ![b] = Append(@, legs[b][i])]
    /\ redelivered' = redelivered + 1
    /\ UNCHANGED <<kind, remote, tasks, contexts, nextMid, pc, cur, elapsed, agentSpec, run>>

\* the worker of agent a takes the next operation of its broker and
\* run_task marks the task working
WorkerBegin(a) ==
    LET app == agentSpec[a]
        q == queue[app.broker]
    IN /\ WorkerFree(cur[a])
       /\ q # <<>>
       /\ LET id == q[receive(q)]
          IN /\ queue' = [queue EXCEPT ![app.broker] = RemoveAt(q, receive(q))]
             /\ tasks' = [tasks EXCEPT ![app.storage][id] =
                             [@ EXCEPT !.state = "working", !.writers = @ \cup {a}]]
             /\ cur' = [cur EXCEPT ![a] = Append(@, id)]
             /\ run' = [run EXCEPT ![a] = Append(@, id)]
       /\ UNCHANGED <<kind, remote, contexts, nextMid, redelivered, pc, legs, elapsed, agentSpec>>

\* a suspended run_task of agent a resumes and stores its outcome
WorkerEnd(a) ==
    /\ \E i \in 1..Len(cur[a]), state \in {"completed", "failed"} :
         LET id == cur[a][i]
         IN /\ tasks' = [tasks EXCEPT ![agentSpec[a].storage][id] =
                            [@ EXCEPT !.state = state,
                                      !.history = IF state = "completed" THEN @ + 1 ELSE @,
                                      !.writers = @ \cup {a}]]
            /\ cur' = [cur EXCEPT ![a] = RemoveAt(@, i)]
    /\ UNCHANGED <<kind, remote, contexts, nextMid, queue, redelivered, pc, legs, elapsed, agentSpec, run>>

NextAgents ==
    \/ \E a \in MountedAgents : SubmitTo(a)
    \/ \E b \in BrokerIds : RedeliverAt(b)
    \/ \E a \in MountedAgents : WorkerBegin(a)
    \/ \E a \in MountedAgents : WorkerEnd(a)

AgentsSpec == InitAgents /\ [][NextAgents]_vars

(***************************************************************************)
(* The agent registry (registry/api.py, service.py, migrations.py): the    *)
(* table agent_cards as the sequence of its rows, and one action per       *)
(* operation on it.  A row keeps the name and, of the other columns, the   *)
(* version.                                                                *)
(***************************************************************************)
MaxRegistryOps == 3

MaxDefinitions == 2

AgentNames == {"Classifier Agent", "Summarizer Agent"}

Versions == {"0.0.1", "0.0.2"}

\* a field of AgentCardSpecUpdate that the request leaves unset
Unset == "unset"

AgentCardSpecCreate == [name : AgentNames, version : Versions]

AgentCardSpecUpdate == [name : AgentNames \cup {Unset}, version : Versions \cup {Unset}]

\* the definitions load_agents_from_json reads from a directory
DefinitionLists ==
    UNION {[1..n -> AgentCardSpecCreate] : n \in 1..MaxDefinitions}

\* id given to a row inserted without one: the largest in the table plus one
NextId(rows) ==
    IF rows = <<>> THEN 1
    ELSE 1 + CHOOSE m \in {rows[i].id : i \in 1..Len(rows)} :
                 \A i \in 1..Len(rows) : rows[i].id <= m

UniqueViolation_none(rows) == FALSE

\* name: Field(index=True, unique=True)
UniqueViolation(rows) ==
    \E i, j \in 1..Len(rows) : i # j /\ rows[i].name = rows[j].name

\* session.commit(): the pending rows are written unless a constraint
\* of the table fails, and then the commit raises
commit(rows, pending) ==
    IF UniqueViolation(pending) THEN [raised |-> TRUE, rows |-> rows]
    ELSE [raised |-> FALSE, rows |-> pending]

\* position of the first row of that name, 0 when there is none
get_agent_by_name(rows, name) ==
    LET hits == {i \in 1..Len(rows) : rows[i].name = name}
    IN IF hits = {} THEN 0 ELSE CHOOSE i \in hits : \A j \in hits : i <= j

\* position of the row of that id, 0 when there is none
get_agent(rows, agent_id) ==
    LET hits == {i \in 1..Len(rows) : rows[i].id = agent_id}
    IN IF hits = {} THEN 0 ELSE CHOOSE i \in hits : TRUE

create_agent(rows, agent_data) ==
    commit(rows, Append(rows, [id |-> NextId(rows), name |-> agent_data.name,
                               version |-> agent_data.version]))

\* the caller has found the row at position i
update_agent(rows, i, agent_data) ==
    commit(rows, [rows EXCEPT ![i] =
                     [id |-> @.id,
                      name |-> IF agent_data.name = Unset THEN @.name ELSE agent_data.name,
                      version |-> IF agent_data.version = Unset THEN @.version
                                  ELSE agent_data.version]])

delete_agent(rows, i) == SubSeq(rows, 1, i - 1) \o SubSeq(rows, i + 1, Len(rows))

NoResults == [created |-> 0, updated |-> 0, skipped |-> 0, errors |-> 0]

\* the loop of migrate_agents from definition i on; faults are the
\* positions at which the database raises
RECURSIVE MigrateFrom(_, _, _, _, _, _)
MigrateFrom(rows, defs, i, force, faults, results) ==
    IF i > Len(defs) THEN [rows |-> rows, results |-> results]
    ELSE LET agent_data == defs[i]
             existing == get_agent_by_name(rows, agent_data.name)
             failed == [results EXCEPT !.errors = @ + 1]
         IN IF i \in faults
            THEN MigrateFrom(rows, defs, i + 1, force, faults, failed)
            ELSE IF existing # 0
            THEN IF force
                 THEN LET done == update_agent(rows, existing, agent_data)
                      IN MigrateFrom(done.rows, defs, i + 1, force, faults,
                                     IF done.raised THEN failed
                                     ELSE [results EXCEPT !.updated = @ + 1])
                 ELSE MigrateFrom(rows, defs, i + 1, force, faults,
                                  [results EXCEPT !.skipped = @ + 1])
            ELSE LET done == create_agent(rows, agent_data)
                 IN MigrateFrom(done.rows, defs, i + 1, force, faults,
                                IF done.raised THEN failed
                                ELSE [results EXCEPT !.created = @ + 1])

migrate_agents_forced(rows, defs, force, faults) ==
    MigrateFrom(rows, defs, 1, TRUE, faults, NoResults)

migrate_agents(rows, defs, force, faults) ==
    MigrateFrom(rows, defs, 1, force, faults, NoResults)

InitRegistry ==
    /\ kind = "registry"
    /\ remote = <<>>
    /\ tasks = <<>>
    /\ contexts = <<>>
    /\ nextMid = 1
    /\ queue = <<>>
    /\ redelivered = 0
    /\ pc = "registry"
    /\ cur = [op |-> "none"]
    /\ legs = <<>>
    /\ elapsed = 0
    /\ agentSpec = [set |-> FALSE]
    /\ run = <<>>

RegistryFrame ==
    /\ redelivered < MaxRegistryOps
    /\ redelivered' = redelivered + 1
    /\ UNCHANGED <<kind, remote, contexts, nextMid, queue, pc, legs, elapsed, agentSpec, run>>

\* POST /registry/agents
ApiCreateAgent ==
    /\ RegistryFrame
    /\ \E agent_data \in AgentCardSpecCreate :
         IF get_agent_by_name(tasks, agent_data.name) # 0
         THEN /\ tasks' = tasks
              /\ cur' = [op |-> "create", status |-> 400]
         ELSE LET done == create_agent(tasks, agent_data)
              IN /\ tasks' = done.rows
                 /\ cur' = [op |-> "create", status |-> IF done.raised THEN 500 ELSE 201]

\* PUT /registry/agents/{agent_id}
ApiUpdateAgent ==
    /\ RegistryFrame
    /\ \E agent_id \in 1..MaxRegistryOps, agent_data \in AgentCardSpecUpdate :
         LET i == get_agent(tasks, agent_id)
         IN IF i = 0
            THEN /\ tasks' = tasks
                 /\ cur' = [op |-> "update", status |-> 404]
            ELSE LET done == update_agent(tasks, i, agent_data)
                 IN /\ tasks' = done.rows
                    /\ cur' = [op |-> "update", status |-> IF done.raised THEN 500 ELSE 200]

\* DELETE /registry/agents/{agent_id}
ApiDeleteAgent ==
    /\ RegistryFrame
    /\ \E agent_id \in 1..MaxRegistryOps :
         LET i == get_agent(tasks, agent_id)
         IN IF i = 0
            THEN /\ tasks' = tasks
                 /\ cur' = [op |-> "delete", status |-> 404]
            ELSE /\ tasks' = delete_agent(tasks, i)
                 /\ cur' = [op |-> "delete", status |-> 204]

\* migrate_agents(agents_dir, force)
MigrateAgents ==
    /\ RegistryFrame
    /\ \E defs \in DefinitionLists, force \in BOOLEAN, faults \in SUBSET (1..MaxDefinitions) :
         LET done == migrate_agents(tasks, defs, force, faults)
         IN /\ tasks' = done.rows
            /\ cur' = [op |-> "migrate", defs |-> defs, force |-> force,
                       results |-> done.results,
                       rerun |-> /\ cur.op = "migrate"
                                 /\ cur.defs = defs
                                 /\ ~cur.force]

NextRegistry ==
    \/ ApiCreateAgent
    \/ ApiUpdateAgent
    \/ ApiDeleteAgent
    \/ MigrateAgents

RegistrySpec == InitRegistry /\ [][NextRegistry]_vars

(***************************************************************************)
(* The request templates of the directors and the payloads built from      *)
(* them.  A template is a dict whose "params" entry refers to a nested     *)
(* dict; the nested dicts live in a heap, so that a copy which shares them *)
(* can be told from one which does not.  The chain params / message /      *)
(* parts[0] is kept as one nested dict: either kind of copy treats every   *)
(* nested level alike.                                                     *)
(***************************************************************************)
MaxRuns == 2

\* "text": None and "id": None until filled
NotFilled == [filled |-> FALSE, value |-> <<>>]
Filled(v) == [filled |-> TRUE, value |-> v]

A2A_MESSAGE_TEMPLATE == [method |-> "message/send", params |-> "MESSAGE_TEMPLATE.params"]

A2A_GET_TASK_TEMPLATE == [method |-> "tasks/get", params |-> "GET_TASK_TEMPLATE.params"]

\* the nested dicts that exist: those of the two templates and those of the
\* payloads of the run under way
Nested ==
    {"MESSAGE_TEMPLATE.params", "GET_TASK_TEMPLATE.params",
     "summarizer_payload.params", "classifier_payload.params", "get_task_payload.params"}

RemoteTaskIds == {<<"r1">>, <<"r2">>}

\* copy.deepcopy(d): a new dict with a nested dict of its own, named fresh
deepcopy(heap, d, fresh) ==
    [heap |-> [heap EXCEPT ![fresh] = heap[d.params]], dict |-> [d EXCEPT !.params = fresh]]

\* d.copy(): a new dict whose entries are those of d, the nested dict shared
shallow_copy(heap, d) == [heap |-> heap, dict |-> d]

\* payload["params"][...] = v
SetNested(heap, payload, v) == [heap EXCEPT ![payload.params] = Filled(v)]

InitTemplates ==
    /\ kind \in {"director", "legacy_director"}
    /\ remote = <<>>
    /\ tasks = [n \in Nested |-> NotFilled]
    /\ contexts = <<>>
    /\ nextMid = 1
    /\ queue = <<>>
    /\ redelivered = 0
    /\ pc = "idle"
    /\ cur = [id |-> 0]
    /\ legs = <<>>
    /\ elapsed = 0
    /\ agentSpec = [set |-> FALSE]
    /\ run = <<>>

\* run_task builds the message/send payloads for the text of its task:
\* director_worker.py lines 150-158, director_agent.py lines 61-62
BuildMessagePayloads ==
    /\ pc = "idle"
    /\ redelivered < MaxRuns
    /\ \E text \in InputTexts :
         IF kind = "director"
         THEN LET s == deepcopy(tasks, A2A_MESSAGE_TEMPLATE, "summarizer_payload.params")
                  hs == SetNested(s.heap, s.dict, text)
                  c == deepcopy(hs, A2A_MESSAGE_TEMPLATE, "classifier_payload.params")
                  hc == SetNested(c.heap, c.dict, text)
              IN /\ tasks' = hc
                 /\ cur' = [id |-> 0, text |-> text, summarizer_payload |-> s.dict,
                            classifier_payload |-> c.dict]
         ELSE LET p == shallow_copy(tasks, A2A_MESSAGE_TEMPLATE)
              IN /\ tasks' = SetNested(p.heap, p.dict, text)
                 /\ cur' = [id |-> 0, text |-> text, summarizer_payload |-> p.dict,
                            classifier_payload |-> p.dict]
    /\ pc' = "sent"
    /\ UNCHANGED <<kind, remote, contexts, nextMid, queue, redelivered, legs, elapsed, agentSpec, run>>

\* the tasks/get payload for the remote task identifier obtained:
\* director_worker.py lines 71-72, director_agent.py lines 70-71 and 89-91
BuildGetTaskPayload ==
    /\ pc = "sent"
    /\ \E task_id \in RemoteTaskIds :
         LET g == deepcopy(tasks, A2A_GET_TASK_TEMPLATE, "get_task_payload.params")
         IN /\ tasks' = SetNested(g.heap, g.dict, task_id)
            /\ cur' = [cur EXCEPT !.id = 0] @@ [get_task_payload |-> g.dict]
    /\ pc' = "idle"
    /\ redelivered' = redelivered + 1
    /\ UNCHANGED <<kind, remote, contexts, nextMid, queue, legs, elapsed, agentSpec, run>>

NextTemplates ==
    \/ BuildMessagePayloads
    \/ BuildGetTaskPayload

TemplateSpec == InitTemplates /\ [][NextTemplates]_vars

(***************************************************************************)
(* Properties                                                              *)
(***************************************************************************)
Ended(t) == run[t] \in {"returned", "raised"}
Queued(t) == \E i \in DOMAIN queue : queue[i].id = t
DirectorKinds == {"director", "legacy_director"}
LeafKinds == {"generic", "legacy_classifier", "legacy_summarizer"}

\* C1: a task in state completed, failed or canceled never changes state
\* again, whatever the workers do, a second delivery of its identifier
\* included.
C1_TerminalIsFinal ==
    [][\A t \in DOMAIN tasks :
          tasks[t].state \in Terminal => tasks'[t].state = tasks[t].state]_vars

\* C2: while run_task is at work on a task (its logic or an outbound call
\* under way) the task is working, and once run_task has ended the task is
\* completed or failed.
C2_Lifecycle ==
    \A t \in DOMAIN tasks :
        /\ run[t] = "running" => tasks[t].state = "working"
        /\ Ended(t) => tasks[t].state \in {"completed", "failed"}

\* C3: no exception leaves run_task, and a task whose execution raised is
\* failed with the error text stored.
C3_CaughtAtBoundary ==
    \A t \in DOMAIN tasks :
        /\ run[t] # "raised"
        /\ tasks[t].state = "failed" => (tasks[t].error.set /\ run[t] = "returned")

\* C4: after a task has failed the worker loop of a leaf agent keeps
\* running: it never ends, and every identifier queued from then on is
\* picked up and its task driven to completed or failed.
C4_LoopSurvivesFailure ==
    /\ [](kind \in LeafKinds => pc # "crashed")
    /\ \A t \in TaskIds :
         (kind \in LeafKinds /\ Queued(t) /\ \E f \in DOMAIN tasks : tasks[f].state = "failed")
           ~> (~Queued(t) /\ run[t] = "returned" /\ tasks[t].state \in {"completed", "failed"})

C4_Witness ==
    /\ kind \in LeafKinds
    /\ \E f, t \in DOMAIN tasks :
         /\ f < t
         /\ tasks[f].state = "failed"
         /\ run[t] = "returned"
         /\ tasks[t].state = "completed"

\* C5: under fair scheduling every task submitted to the director reaches
\* completed or failed, whatever condition the two remote agents are in.
C5_DirectorTerminates ==
    \A t \in TaskIds :
        (kind = "director" /\ t \in DOMAIN tasks)
          ~> (t \in DOMAIN tasks /\ tasks[t].state \in {"completed", "failed"})

C5_Witness ==
    /\ kind = "director"
    /\ remote["summarizer"] = "silent"
    /\ remote["classifier"] = "unreachable"
    /\ \E t \in DOMAIN tasks : run[t] = "returned" /\ tasks[t].state = "completed"

\* C6: whatever the two downstream calls yield, a director task whose input
\* is well formed ends completed, and a director task is failed only when
\* the director's own logic raised (here: on an input without parts).
C6_DownstreamNeverFails ==
    kind \in DirectorKinds =>
        \A t \in DOMAIN tasks :
            /\ (Ended(t) /\ tasks[t].history[1].parts # <<>>) => tasks[t].state = "completed"
            /\ tasks[t].state = "failed" => tasks[t].history[1].parts = <<>>

\* C7: the parent task of a director run is not completed while a
\* downstream call of that run is pending or still to be issued.
C7_CompletedAfterBoth ==
    (kind \in DirectorKinds /\ pc \in {"gather", "legacy_send", "legacy_get"})
        => tasks[cur.id].state # "completed"

\* C8: during the joint wait of the director every call in flight can end
\* without the other having ended, sleeping calls wake together, and the
\* wait lasts at most max_attempts poll intervals.
C8_CallsOverlap ==
    (kind = "director" /\ pc = "gather") =>
        /\ elapsed <= max_attempts
        /\ \A l \in Legs :
             /\ legs[l].pc = "sending" => ENABLED LegSendResponse(l)
             /\ legs[l].pc = "polling" => ENABLED LegPollResponse(l)
             /\ legs[l].pc = "sleeping" =>
                  \/ ENABLED Tick
                  \/ \E o \in Legs \ {l} : legs[o].pc \in {"sending", "polling"}

C8_Witness ==
    /\ kind = "director"
    /\ pc = "gather"
    /\ elapsed = max_attempts
    /\ \A l \in Legs : legs[l].pc = "polling" /\ legs[l].attempt = max_attempts - 1

\* f"[Error: ...]"
IsErrorForm(text) ==
    /\ Len(text) >= 2
    /\ text[1] = "[Error: "
    /\ text[Len(text)] = "]"

\* C9: get_agent_message returns a text and raises nothing; whenever it
\* ends otherwise than on a completed remote task, the text it returns has
\* the form "[Error: ...]".
C9_ClientNeverRaises ==
    \A l \in Legs :
        legs[l].pc = "done" =>
            /\ ~legs[l].out.raised
            /\ legs[l].out.how \in {"completed", "failed", "timeout", "exception", "no_result", "no_id"}
            /\ legs[l].out.how # "completed" => IsErrorForm(legs[l].out.text)

C9_Witness ==
    \E l \in Legs :
        /\ legs[l].pc = "done"
        /\ legs[l].task_id = "r1"
        /\ legs[l].out.text = ErrorText(<<"'NoneType' object has no attribute 'get'">>)

\* C10: a call that obtained a remote task identifier resolves to one
\* outcome: no tasks/get is under way or ahead once a poll has shown the
\* remote task completed or failed, the outcome is that of the first such
\* poll and otherwise a timeout or an error, and a call that has not
\* returned can always take a step.
C10_OneOutcomePerCall ==
    \A l \in Legs :
        /\ legs[l].pc \in {"sleeping", "polling"} =>
              (legs[l].task_id # "" /\ legs[l].seen = NotSeen /\ ENABLED NextClient)
        /\ (legs[l].pc = "done" /\ legs[l].task_id # "") =>
              /\ legs[l].seen.state = "completed" =>
                    (legs[l].out.how = "completed" /\ legs[l].out.text = CompletedText(legs[l].seen))
              /\ legs[l].seen.state = "failed" =>
                    (legs[l].out.how = "failed" /\ IsErrorForm(legs[l].out.text))
              /\ legs[l].seen = NotSeen => legs[l].out.how \in {"timeout", "exception"}

C10_Witness ==
    \E l \in Legs :
        /\ legs[l].pc = "done"
        /\ legs[l].task_id = "r1"
        /\ legs[l].seen.state = "failed"
        /\ legs[l].out.how = "failed"

\* C11: the poll loop of get_agent_message is bounded.  While a call polls,
\* the number of tasks/get requests it has issued is the index of its
\* attempt (plus the one under way) and stays within max_attempts; a poll
\* that ends the iteration without an outcome moves the call to the next
\* attempt; the timeout outcome is returned from the last attempt and from
\* no other, and the last attempt always ends the call.
C11_PollLoopBounded ==
    /\ [](\A l \in Legs :
            legs[l].pc \in {"sleeping", "polling"} =>
                /\ legs[l].attempt < max_attempts
                /\ elapsed = legs[l].attempt + (IF legs[l].pc = "polling" THEN 1 ELSE 0)
                /\ elapsed <= max_attempts)
    /\ [][\A l \in Legs :
            (legs[l].pc = "polling" /\ legs'[l] # legs[l]) =>
                /\ legs'[l].pc \in {"sleeping", "done"}
                /\ legs'[l].pc = "sleeping" =>
                      (legs'[l].attempt = legs[l].attempt + 1 /\ legs'[l].seen = NotSeen)
                /\ legs[l].attempt = max_attempts - 1 => legs'[l].pc = "done"
                /\ legs'[l].out.how = "timeout" =>
                      /\ legs[l].attempt = max_attempts - 1
                      /\ legs'[l].seen = NotSeen
                      /\ legs'[l].out = TimeoutOut]_vars

C11_Witness ==
    \E l \in Legs :
        /\ legs[l].pc = "done"
        /\ legs[l].task_id = "r1"
        /\ legs[l].out = TimeoutOut
        /\ legs[l].seen = NotSeen

\* a message/send answer that was received and parsed but names no task
NamesNoTask(resp) ==
    /\ Received(resp).act = "poll"
    /\ \/ "result" \notin DOMAIN resp.body
       \/ IsNull(resp.body.result)
       \/ "id" \notin DOMAIN resp.body.result
       \/ resp.body.result.id = ""

\* C12: a message/send answer without a result object or without a task
\* identifier never leads into the poll loop: the call ends straight from
\* the send exchange with an error text it returns (nothing is raised), and
\* a call that sleeps or polls holds a task identifier.
C12_NoResultNoPoll ==
    /\ [](\A resp \in SendResponses :
            NamesNoTask(resp) =>
                /\ SendStep(resp).act \in {"return", "raise"}
                /\ SendStep(resp).act = "return" =>
                      (SendStep(resp).how \in {"no_result", "no_id"} /\ IsErrorForm(SendStep(resp).text))
                /\ SendStep(resp).act = "raise" =>
                      (~OnException(SendStep(resp).exc).raised
                       /\ IsErrorForm(OnException(SendStep(resp).exc).text)))
    /\ [](\A l \in Legs :
            /\ legs[l].pc \in {"sleeping", "polling"} => legs[l].task_id # ""
            /\ (legs[l].pc = "done" /\ legs[l].out.how \in {"no_result", "no_id"}) =>
                  /\ legs[l].task_id = ""
                  /\ ~legs[l].out.raised
                  /\ legs[l].out.text \in {ErrorText(<<"No result in response">>),
                                           ErrorText(<<"No task ID in response">>)})
    /\ [][\A l \in Legs :
            legs'[l].out.how \in {"no_result", "no_id"} =>
                (legs[l].pc \in {"sending", "done"} /\ elapsed' = 0)]_vars

C12_Witness ==
    \E l \in Legs :
        /\ legs[l].pc = "done"
        /\ legs[l].out.how = "no_id"
        /\ legs[l].task_id = ""

\* the last message of a remote task's history has a first part with a text
HasLastText(task) ==
    /\ "history" \in DOMAIN task
    /\ task.history # <<>>
    /\ "parts" \in DOMAIN task.history[Len(task.history)]
    /\ task.history[Len(task.history)].parts # <<>>
    /\ "text" \in DOMAIN task.history[Len(task.history)].parts[1]

\* C13: a call whose poll showed the remote task completed returns, as
\* success, the text of the first part of the last message of that task's
\* history, and the empty text when there is no such part.
C13_CompletedTextIsLastFirstPart ==
    \A l \in Legs :
        (legs[l].pc = "done" /\ legs[l].seen.state = "completed") =>
            /\ legs[l].out.how = "completed"
            /\ ~legs[l].out.raised
            /\ legs[l].out.text =
                  IF HasLastText(legs[l].seen)
                  THEN legs[l].seen.history[Len(legs[l].seen.history)].parts[1].text
                  ELSE <<>>

C13_Witness ==
    \E l \in Legs :
        /\ legs[l].pc = "done"
        /\ legs[l].seen.state = "completed"
        /\ HasLastText(legs[l].seen)
        /\ Len(legs[l].seen.history) = 2
        /\ legs[l].out.text = RemoteText(l)
        /\ legs[l].out.text # legs[l].seen.history[1].parts[1].text

\* C14: a call whose poll showed the remote task failed polls no more and
\* returns a failure outcome, never a success: the error text built from
\* the remote task's error, or from "Unknown error" when the task carries
\* none.
C14_FailedIsFailure ==
    \A l \in Legs :
        /\ legs[l].seen.state = "failed" => legs[l].pc = "done"
        /\ (legs[l].pc = "done" /\ legs[l].seen.state = "failed") =>
              /\ legs[l].out.how = "failed"
              /\ ~legs[l].out.raised
              /\ legs[l].out.text =
                    <<"[Error: ">>
                    \o (IF "error" \in DOMAIN legs[l].seen THEN legs[l].seen.error
                        ELSE <<"Unknown error">>)
                    \o <<"]">>

C14_Witness ==
    \E l \in Legs :
        /\ legs[l].pc = "done"
        /\ legs[l].seen.state = "failed"
        /\ legs[l].out.text = <<"[Error: ", "boom", "]">>

\* the text of the reply a finished run left as the last message of the task
ReplyOf(t) == tasks[t].history[Len(tasks[t].history)].parts[1].text

\* a director task whose latest run has returned with the task completed
DirectorDone(t) ==
    /\ kind = "director"
    /\ t \in DOMAIN tasks
    /\ run[t] = "returned"
    /\ tasks[t].state = "completed"

\* the reply read as its two sections: what stands between the summary
\* heading and the label heading, and what stands after the label heading
HasSections(reply) ==
    /\ Len(reply) >= 8
    /\ reply[1] = "Our behind-the-scenes bots formed the following conclusions:"
    /\ reply[2] = "\n"
    /\ reply[3] = "## Summary:"
    /\ reply[4] = "\n"
    /\ \E k \in 6..Len(reply) : reply[k] = "## Label:"
LabelAt(reply) == CHOOSE k \in 6..Len(reply) : reply[k] = "## Label:"
SummarySection(reply) == SubSeq(reply, 5, LabelAt(reply) - 2)
LabelSection(reply) == SubSeq(reply, LabelAt(reply) + 2, Len(reply))

\* C15: when the summarizer returns the non-blank text X and the classifier
\* the non-blank text Y, the reply of the director is the template with X
\* under the summary heading and Y under the label heading, summary first.
C15_ReplyCarriesBoth ==
    \A t \in TaskIds :
        (DirectorDone(t) /\ remote = [l \in Legs |-> "completes"]) =>
            /\ tasks[t].history[Len(tasks[t].history)].role = "agent"
            /\ ReplyOf(t) = <<"Our behind-the-scenes bots formed the following conclusions:", "\n",
                              "## Summary:", "\n", "X", "\n", "## Label:", "\n", "Y">>

C15_Witness ==
    \E t \in TaskIds :
        /\ DirectorDone(t)
        /\ remote = [l \in Legs |-> "completes"]
        /\ HasSections(ReplyOf(t))
        /\ SummarySection(ReplyOf(t)) = RemoteText("summarizer")
        /\ LabelSection(ReplyOf(t)) = RemoteText("classifier")

\* C16: when the summarizer's remote task fails or never ends and the
\* classifier succeeds with Y, the director's reply has the fixed
\* placeholder in the summary section and Y in the label section; likewise
\* with the legs exchanged.
C16_FailedLegIsPlaceholder ==
    \A t \in TaskIds :
        DirectorDone(t) =>
            /\ HasSections(ReplyOf(t))
            /\ (remote["summarizer"] \in {"fails", "silent"} /\ remote["classifier"] = "completes") =>
                  /\ SummarySection(ReplyOf(t)) = <<"[No summary available]">>
                  /\ LabelSection(ReplyOf(t)) = <<"Y">>
            /\ (remote["classifier"] \in {"fails", "silent"} /\ remote["summarizer"] = "completes") =>
                  /\ SummarySection(ReplyOf(t)) = <<"X">>
                  /\ LabelSection(ReplyOf(t)) = <<"[No classification available]">>

\* C17: a downstream result that is empty or only whitespace appears in the
\* director's reply as its section's placeholder, and no section of a reply
\* is blank.
C17_BlankIsPlaceholder ==
    \A t \in TaskIds :
        DirectorDone(t) =>
            /\ HasSections(ReplyOf(t))
            /\ Strip(SummarySection(ReplyOf(t))) # <<>>
            /\ Strip(LabelSection(ReplyOf(t))) # <<>>
            /\ remote["summarizer"] = "blank" =>
                  SummarySection(ReplyOf(t)) = <<"[No summary available]">>
            /\ remote["classifier"] = "blank" =>
                  LabelSection(ReplyOf(t)) = <<"[No classification available]">>

C17_Witness ==
    \E t \in TaskIds :
        /\ DirectorDone(t)
        /\ remote["summarizer"] = "blank"
        /\ remote["classifier"] = "completes"
        /\ SummarySection(ReplyOf(t)) = <<"[No summary available]">>
        /\ LabelSection(ReplyOf(t)) = <<"Y">>

\* the lookup of a leg's endpoint gives nothing: no configured name
\* contains the leg's word, or the registry raises, holds no record under
\* the first such name, or holds one without a usable endpoint
LookupFails(l) ==
    \/ \A i \in 1..Len(cur.agent_names) : ~IsSubstr(<<l>>, Lower(cur.agent_names[i]))
    \/ cur.registry[l] \in {"raises", "absent", "unset", "empty"}

\* C18: the endpoint resolution of the director never ends in the handler
\* of run_task, and a leg whose lookup gives nothing is called at its
\* hardcoded fallback endpoint; a leg whose lookup succeeds is called at the
\* registry's endpoint.
C18_LookupFallsBack ==
    /\ pc # "handler"
    /\ pc \in {"resolve_classifier", "resolved"} =>
          cur.urls["summarizer"] =
             IF LookupFails("summarizer") THEN <<"http://localhost:8000/summarizer/">>
             ELSE RegistryUrl(FirstNamed(cur.agent_names, "summarizer"))
    /\ pc = "resolved" =>
          cur.urls["classifier"] =
             IF LookupFails("classifier") THEN <<"http://localhost:8000/classifier/">>
             ELSE RegistryUrl(FirstNamed(cur.agent_names, "classifier"))

C18_Witness ==
    /\ pc = "resolved"
    /\ cur.registry["summarizer"] = "raises"
    /\ cur.registry["classifier"] = "set"
    /\ cur.agent_names[1] = SummarizerName
    /\ cur.urls["summarizer"] = <<"http://localhost:8000/summarizer/">>
    /\ cur.urls["classifier"] = RegistryUrl(ClassifierName)

IsPrefix(a, b) == Len(a) <= Len(b) /\ SubSeq(b, 1, Len(a)) = a

\* C19: the message history of a context is append-only: every step leaves
\* a stored context stored as a list of which the previous contents are a
\* prefix, and no message stands in a context twice.
C19_ContextAppendOnly ==
    [][\A c \in CtxIds :
          /\ contexts[c].present =>
                /\ contexts'[c].present
                /\ contexts'[c].isList
                /\ IsPrefix(contexts[c].items, contexts'[c].items)
          /\ \A i, j \in 1..Len(contexts'[c].items) :
                contexts'[c].items[i] = contexts'[c].items[j] => i = j]_vars

\* C20: whenever a task is completed, the last entry of its history is an
\* agent-role message and the same message is the last entry of the list
\* stored as the task's context.
C20_ReplyInTaskAndContext ==
    \A t \in DOMAIN tasks :
        tasks[t].state = "completed" =>
            LET last == tasks[t].history[Len(tasks[t].history)]
                ctx == contexts[tasks[t].context_id]
            IN /\ last.role = "agent"
               /\ ctx.present
               /\ ctx.isList
               /\ ctx.items # <<>>
               /\ ctx.items[Len(ctx.items)] = last

\* C21: the record of a task in a terminal state is immutable: no step
\* appends a message to its history or changes its error description.
C21_TerminalRecordFrozen ==
    [][\A t \in DOMAIN tasks :
          tasks[t].state \in Terminal =>
              /\ tasks'[t].history = tasks[t].history
              /\ tasks'[t].error = tasks[t].error]_vars

\* a cancel request for task t waits in the broker
CancelQueued(t) ==
    \E i \in DOMAIN queue : queue[i].operation = "cancel" /\ queue[i].id = t

\* C22: cancellation is a no-op.  The step in which a worker handles a
\* cancel request changes no task and no context, no task is ever in state
\* canceled, and under the workers of agents/ a task for which a cancel
\* request waits still reaches completed or failed.
C22_CancelIsNoOp ==
    /\ [][(pc = "idle" /\ queue # <<>> /\ Head(queue).operation = "cancel" /\ queue' = Tail(queue))
            => (tasks' = tasks /\ contexts' = contexts /\ pc' = pc /\ run' = run)]_vars
    /\ [](\A t \in DOMAIN tasks : tasks[t].state # "canceled")
    /\ \A t \in TaskIds :
         (kind \in {"generic", "director"} /\ CancelQueued(t))
            ~> (t \in DOMAIN tasks /\ tasks[t].state \in {"completed", "failed"}
                /\ ~CancelQueued(t))

\* a cancel request for the only task has been handled, and the task has
\* been run once and completed
C22_Witness ==
    /\ kind \in {"generic", "director"}
    /\ Len(tasks) = 1
    /\ redelivered = 1
    /\ queue = <<>>
    /\ pc = "idle"
    /\ run[1] = "returned"
    /\ tasks[1].state = "completed"
    /\ Len(tasks[1].history) = 2

\* the LLM gives the worker nothing to use: the agent is not LLM-backed,
\* or run_agent raises, answers blank, or answers with a sentinel text
LlmUnavailable(spec, llm) ==
    \/ ~(spec.uses_adk /\ spec.system_prompt)
    \/ llm.raised
    \/ Strip(llm.text) = <<>>
    \/ (Len(Strip(llm.text)) >= 1 /\ Strip(llm.text)[1] = "[LLM")

Processed(agent_type) == pc = "processed" /\ cur.spec.agent_type = agent_type

\* the entries of the configured keyword mapping one of whose keywords
\* occurs in the lower-cased input
MatchingEntries ==
    LET kws == IF "fallback_keywords" \in DOMAIN cur.spec.config
               THEN cur.spec.config.fallback_keywords ELSE <<>>
    IN {kws[i].label : i \in {j \in 1..Len(kws) :
                                \E k \in 1..Len(kws[j].keywords) :
                                    IsSubstr(kws[j].keywords[k], Lower(cur.text))}}

ConfiguredCategories ==
    IF "categories" \in DOMAIN cur.spec.config THEN cur.spec.config.categories
    ELSE << <<"insurance">>, <<"medical">>, <<"general">> >>

C24_LabelIsCategory ==
    Processed("classifier") =>
        \E i \in 1..Len(ConfiguredCategories) : cur.result_text = ConfiguredCategories[i]

\* C25: with the LLM unavailable and fallback length L the summarizer
\* returns the first L characters of the input followed by "..." when the
\* input is longer than L, and the input itself when its length is at most L.
C25_TruncationFallback ==
    (Processed("summarizer") /\ LlmUnavailable(cur.spec, cur.llm)) =>
        LET L == IF "fallback_length" \in DOMAIN cur.spec.config
                 THEN cur.spec.config.fallback_length ELSE 100
        IN IF Len(cur.text) > L
           THEN cur.result_text = SubSeq(cur.text, 1, L) \o <<"...">>
           ELSE cur.result_text = cur.text

C25_Witness ==
    /\ Processed("summarizer")
    /\ cur.spec.uses_adk
    /\ cur.llm.raised
    /\ "fallback_length" \in DOMAIN cur.spec.config
    /\ cur.spec.config.fallback_length = 3
    /\ Len(cur.text) = 3
    /\ cur.result_text = cur.text

C27_ReadAfterWrite ==
    [][\A t \in DOMAIN tasks :
          /\ tasks'[t].id = tasks[t].id
          /\ tasks'[t].context_id = tasks[t].context_id
          /\ IsPrefix(tasks[t].history, tasks'[t].history)
          /\ tasks'[t].state = "failed" \/ tasks'[t].error = tasks[t].error
          /\ tasks'[t] # tasks[t] =>
                /\ tasks'[t].state \in {"working", "completed", "failed"}
                /\ run'[t] = "returned" => tasks'[t].state \in {"completed", "failed"}
                /\ tasks'[t].state = "working" => tasks'[t].history = tasks[t].history
                /\ tasks'[t].state = "failed" => tasks'[t].error.set
                /\ tasks'[t].state = "completed" =>
                      Len(tasks'[t].history) = Len(tasks[t].history) + 1]_vars

C27_Witness ==
    /\ kind = "generic"
    /\ redelivered = 0
    /\ Len(tasks) = 2
    /\ tasks[1].state = "completed"
    /\ Len(tasks[1].history) = 2
    /\ tasks[1].history[1].role = "user"
    /\ tasks[1].history[2].role = "agent"
    /\ tasks[2].state = "working"

\* number of run_task executions in flight for task t, over all workers
InFlight(t) ==
    LET agents == {a \in MountedAgents : \E i \in 1..Len(cur[a]) : cur[a][i] = t}
        twice == {a \in MountedAgents :
                    \E i, j \in 1..Len(cur[a]) : i # j /\ cur[a][i] = t /\ cur[a][j] = t}
    IN IF twice # {} THEN 2 ELSE Cardinality(agents)

\* C28: at any moment at most one run_task is in flight for a task
\* identifier, and the stored state is the in-flight run's own: a task is
\* working exactly while its one run is in flight, so the transition and
\* the append of a run are never interleaved with another writer's update.
C28_OneRunInFlight ==
    \A s \in DOMAIN tasks : \A t \in DOMAIN tasks[s] :
        /\ InFlight(t) <= 1
        /\ tasks[s][t].state = "working" <=> InFlight(t) = 1

\* an identifier is in flight while the same identifier waits in the queue
C28_Witness ==
    \E a \in MountedAgents :
        /\ Len(cur[a]) = 1
        /\ \E i \in 1..Len(queue[agentSpec[a].broker]) :
              queue[agentSpec[a].broker][i] = cur[a][1]

\* C29: a worker begins the identifiers submitted to its broker in the
\* order of their submission, and begins one only when no run_task of its
\* own is in flight, however long the previous one stays suspended.
C29_FifoOneAtATime ==
    [][\A a \in MountedAgents :
          run'[a] # run[a] =>
              /\ cur[a] = <<>>
              /\ IsPrefix(run'[a], legs[agentSpec[a].broker])]_vars

\* a second task was begun after the first had ended and is suspended
\* while a third operation waits
C29_Witness ==
    \E a \in MountedAgents :
        /\ Len(run[a]) = 2
        /\ run[a][1] # run[a][2]
        /\ cur[a] = <<run[a][2]>>
        /\ queue[agentSpec[a].broker] # <<>>

\* C30: every agent has a broker and a store of its own, and a task
\* submitted to one agent is only ever queued at, begun by and written by
\* that agent's worker.
C30_AgentsIsolated ==
    /\ \A a, b \in MountedAgents :
          a # b => /\ agentSpec[a].broker # agentSpec[b].broker
                   /\ agentSpec[a].storage # agentSpec[b].storage
    /\ \A a \in MountedAgents :
          LET store == tasks[agentSpec[a].storage]
              q == queue[agentSpec[a].broker]
          IN /\ \A i \in 1..Len(q) : q[i] \in DOMAIN store /\ store[q[i]].owner = a
             /\ \A i \in 1..Len(run[a]) :
                   run[a][i] \in DOMAIN store /\ store[run[a][i]].owner = a
    /\ \A s \in DOMAIN tasks : \A t \in DOMAIN tasks[s] :
          tasks[s][t].writers \subseteq {tasks[s][t].owner}

\* both agents have a task of their own in flight at the same time
C30_Witness ==
    /\ kind = "mounted"
    /\ \A a \in MountedAgents :
          /\ Len(cur[a]) = 1
          /\ tasks[agentSpec[a].storage][cur[a][1]].owner = a
          /\ tasks[agentSpec[a].storage][cur[a][1]].writers = {a}

\* a step of the leaf worker that takes a run operation and gets as far as
\* _process_text with a specification
UsesSpec ==
    /\ kind = "generic"
    /\ pc = "idle"
    /\ queue # <<>>
    /\ Head(queue).operation = "run"
    /\ Head(queue).id \in DOMAIN tasks
    /\ queue' = Tail(queue)
    /\ pc' = "llm" \/ tasks'[Head(queue).id].state = "completed"

\* C31: every task execution that uses the agent specification has looked
\* it up in the registry itself (the cache was empty when the execution
\* began, so the property performed one lookup), keeps that one value while
\* it is suspended, and never writes to it.
C31_SpecResolvedPerTask ==
    [][/\ UsesSpec => ~agentSpec.set
       /\ (kind = "generic" /\ pc = "llm") =>
             /\ agentSpec' = agentSpec
             /\ cur.spec = agentSpec.spec]_vars

\* C32: the agent name is a unique key of the registry: whatever create,
\* update, delete and migrate operations have been applied, no two rows of
\* the table carry the same name.
C32_NameIsUniqueKey ==
    kind = "registry" =>
        \A i, j \in 1..Len(tasks) : i # j => tasks[i].name # tasks[j].name

\* an update that would have given a row the name of another one was
\* refused and both rows are still there
C32_Witness ==
    /\ kind = "registry"
    /\ cur.op = "update"
    /\ cur.status = 500
    /\ Len(tasks) = 2

\* a tasks/get exchange that fails: no connection, or a status outside 2xx
FailedExchange(resp) == resp.net = "conn" \/ ~(resp.status >= 200 /\ resp.status < 300)

\* C33: a tasks/get exchange that fails on any attempt ends the call at
\* once with an error outcome (the HTTP status, or the request failure):
\* the call does not sleep or poll again, whatever is left of its budget
\* and whatever a later poll would have shown.
C33_PollErrorEndsCall ==
    [][\A l \in Legs : \A resp \in PollResponses(l, nextMid) :
          (/\ legs[l].pc = "polling"
           /\ FailedExchange(resp)
           /\ legs'[l] # legs[l]
           /\ legs'[l] = AfterPoll(legs[l], resp)) =>
              /\ legs'[l].pc = "done"
              /\ ~legs'[l].out.raised
              /\ legs'[l].out.how = "exception"
              /\ legs'[l].out.text =
                    IF resp.net = "conn"
                    THEN <<"[Error: ", "Request failed: ", "All connection attempts failed", "]">>
                    ELSE <<"[Error: ", "HTTP ", StatusText(resp.status), "]">>]_vars

\* a call that had obtained its remote task identifier ended on a poll
\* answered with status 500
C33_Witness ==
    \E l \in Legs :
        /\ kind = "client"
        /\ legs[l].pc = "done"
        /\ legs[l].task_id = "r1"
        /\ legs[l].seen = NotSeen
        /\ legs[l].out.text = <<"[Error: ", "HTTP ", "500", "]">>

\* what the section of leg l holds when the remote agent behind l is in
\* condition c, whatever the other agent does
SectionFor(l, c) ==
    CASE c = "completes" -> RemoteText(l)
      [] c = "blank" -> IF l = "summarizer" THEN <<"[No summary available]">>
                        ELSE <<"[No classification available]">>
      [] c = "fails" -> <<"[Error: ", "boom", "]">>
      [] c = "silent" -> <<"[Error: ", "Timeout waiting for response", "]">>
      [] c = "garbled" -> <<"[Error: ", "Expecting value: line 1 column 1 (char 0)", "]">>
      [] OTHER -> <<"[Error: ", "Request failed: ", "All connection attempts failed", "]">>

\* C34: the two legs are isolated from each other: the summary section of
\* the director's reply is determined by the summarizer's behaviour alone
\* and the label section by the classifier's alone, so that runs which
\* differ only in one agent's behaviour agree on the other agent's section.
C34_LegsIsolated ==
    \A t \in TaskIds :
        DirectorDone(t) =>
            /\ HasSections(ReplyOf(t))
            /\ SummarySection(ReplyOf(t)) = SectionFor("summarizer", remote["summarizer"])
            /\ LabelSection(ReplyOf(t)) = SectionFor("classifier", remote["classifier"])

\* the summarizer cannot be reached and the label section is the
\* classifier's text all the same
C34_Witness ==
    \E t \in TaskIds :
        /\ DirectorDone(t)
        /\ remote["summarizer"] = "unreachable"
        /\ remote["classifier"] = "completes"
        /\ LabelSection(ReplyOf(t)) = <<"Y">>
        /\ SummarySection(ReplyOf(t)) # <<"X">>

\* C35: a task execution of ConfigurableWorker or DirectorWorker that ends
\* in failed leaves no reply behind: the step that stores the failure
\* leaves every context as it was and appends nothing to the history of the
\* task.
C35_FailureLeavesNoReply ==
    [][\A t \in DOMAIN tasks :
          (/\ kind \in {"generic", "director"}
           /\ tasks'[t] # tasks[t]
           /\ tasks'[t].state = "failed") =>
              /\ contexts' = contexts
              /\ tasks'[t].history = tasks[t].history
              /\ tasks'[t].error.set]_vars

\* a failed task that holds the caller's message only, with nothing stored
\* for its context
C35_Witness ==
    \E t \in DOMAIN tasks :
        /\ kind \in {"generic", "director"}
        /\ redelivered = 0
        /\ run[t] = "returned"
        /\ tasks[t].state = "failed"
        /\ Len(tasks[t].history) = 1
        /\ tasks[t].history[1].role = "user"
        /\ ~contexts[tasks[t].context_id].present

\* a step of the leaf worker that takes a run operation, gets as far as the
\* lookup of its specification, and finds none
SpecUnresolved ==
    /\ kind = "generic"
    /\ pc = "idle"
    /\ queue # <<>>
    /\ Head(queue).operation = "run"
    /\ Head(queue).id \in DOMAIN tasks
    /\ queue' = Tail(queue)
    /\ ~PreludeError(load_context_or_empty(contexts, Head(queue).context_id), Head(queue)).raised
    /\ ~agentSpec'.set

\* C36: when the specification of a leaf worker cannot be resolved, the
\* task ends failed with the error "Agent spec not found for <name>"; the
\* run ends in that step, before any LLM call or fallback processing, and
\* produces no message: history, contexts and the source of message
\* identifiers are as before.
C36_SpecNotFoundFails ==
    [][SpecUnresolved =>
          LET t == Head(queue).id
          IN /\ tasks'[t].state = "failed"
             /\ tasks'[t].error = SomeError(<<"Agent spec not found for ", "agent_name">>)
             /\ tasks'[t].history = tasks[t].history
             /\ contexts' = contexts
             /\ nextMid' = nextMid
             /\ pc' = "idle"
             /\ run'[t] = "returned"]_vars

C36_Witness ==
    \E t \in DOMAIN tasks :
        /\ kind = "generic"
        /\ ~agentSpec.set
        /\ run[t] = "returned"
        /\ tasks[t].state = "failed"
        /\ tasks[t].error = SomeError(<<"Agent spec not found for ", "agent_name">>)
        /\ Len(tasks[t].history) = 1

\* C37: a run_task on an identifier the storage does not hold returns
\* without raising, whether the load raises or returns None, and leaves
\* every task and every context as it was.
C37_UnknownIdIsIgnored ==
    [][(/\ pc = "idle"
        /\ queue # <<>>
        /\ Head(queue).operation = "run"
        /\ Head(queue).id \notin DOMAIN tasks
        /\ queue' = Tail(queue)) =>
           /\ cur'.outcome = "returned"
           /\ pc' = "idle"
           /\ tasks' = tasks
           /\ contexts' = contexts]_vars

\* C38: for one category list the classifier has one default label: the
\* label _post_process_response gives for an LLM response that contains no
\* configured category is the label _fallback_process gives for a text in
\* which no keyword occurs.
C38_SameDefaultLabel ==
    (/\ Processed("classifier")
     /\ ~cur.llm.raised
     /\ \A i \in 1..Len(ConfiguredCategories) :
           ~IsSubstr(ConfiguredCategories[i], Lower(Strip(cur.llm.text)))
     /\ MatchingEntries = {}) =>
        _post_process_response(cur.llm.text, cur.spec) = _fallback_process(cur.text, cur.spec)

\* C39: building the payloads leaves the module-level templates as they
\* were written: whatever runs have gone by, the text of
\* A2A_MESSAGE_TEMPLATE and the id of A2A_GET_TASK_TEMPLATE are not filled.
C39_TemplatesUntouched ==
    /\ tasks[A2A_MESSAGE_TEMPLATE.params] = NotFilled
    /\ tasks[A2A_GET_TASK_TEMPLATE.params] = NotFilled

\* a step that is a run of migrate_agents without force
MigratedUnforced ==
    /\ kind = "registry"
    /\ redelivered' # redelivered
    /\ cur'.op = "migrate"
    /\ ~cur'.force

\* a run of migrate_agents without force keeps every row there was and
\* no name twice, and counts each definition once
MigrateKeepsAndCounts ==
    /\ IsPrefix(tasks, tasks')
    /\ \A i, j \in 1..Len(tasks') : i # j => tasks'[i].name # tasks'[j].name
    /\ cur'.results.updated = 0
    /\ cur'.results.created = Len(tasks') - Len(tasks)
    /\ cur'.results.created + cur'.results.skipped + cur'.results.errors = Len(cur'.defs)

====
